---- MODULE Spec2Model ----
(***************************************************************************)
(* Moxy Rates Template Transfer: the pivot of DataProcessor.transform_data,*)
(* the PlanDeduct derivation of DataProcessor._add_plan_deduct_column and  *)
(* the run of Application.continue_processing around them.                 *)
(*                                                                         *)
(* Text is a sequence of one-character strings, so that str.isdigit,       *)
(* str.lower, str.strip, "in", startswith and "||".join are computed       *)
(* character by character.  A cell of a DataFrame is the text str() gives  *)
(* for it ("100" for the integer 100, "100.0" for the float), '' is the    *)
(* empty text, and NaN and None are two markers that are no text.          *)
(***************************************************************************)
EXTENDS Integers, Sequences, FiniteSets, TLC

VARIABLES
    source_df,       \* rows of the adjusted-rates sheet (adjusted_df)
    mapping_in,      \* the mapping handed to continue_processing
    mapping_arg,     \* that dict as transform_data receives it
    mapping,         \* the same dict object after the run
    grouped_keys,    \* list(grouped_data.keys()) at the end of the pivot loop
    transformed,     \* what transform_data returned: [kind, columns, rows]
    final_df,        \* what integrate_with_template returned
    template_df,     \* the template sheet integrate_with_template is handed
    messages,        \* msg_queue entries posted by continue_processing
    phase,           \* "input" | "done" | "plan_in" | "plan_out"
    default_deductible,  \* DataProcessor.default_deductible
    plan_df,         \* the DataFrame given to / returned by _add_plan_deduct_column
    plan_given,      \* the columns of the DataFrame _add_plan_deduct_column was given
    structure,       \* what analyze_file_structure returned for the sheet
    current_mapping,     \* MappingSystem.current_mapping
    mapping_confidence,  \* MappingSystem.mapping_confidence
    sig_structures,  \* the structures _generate_file_signature is called on
    sig_results,     \* its calls so far: which structure, and the signature returned
    mappings,        \* MappingConfigManager.mappings; its two indexes hold references
    heap,            \* the mapping records the references of the indexes point to
    disk,            \* the file at config_path
    clock,           \* what datetime.now() returns
    calls,           \* the cache operations so far: arguments, time and result
    prior,           \* mappings, heap and disk as they were before the last operation
    writable,        \* whether open(config_path, 'w') succeeds
    twin,            \* a manager given the same operations that is never created anew
    sheet_df,        \* the DataFrame whose fields are profiled
    sheet_structure, \* what the analysis of sheet_df returned, or that it raised
    numeric_columns,  \* the numeric columns _identify_deductible_column is given
    deductible_column,  \* what _identify_deductible_column returned
    named_columns,   \* the columns_info suggest_column_mappings is given, in dict order
    column_suggestions, \* what suggest_column_mappings returned
    msg_queue,       \* Application.msg_queue: the entries put and not yet taken
    runs,            \* the runs process_files started: where each one is
    widgets,         \* the buttons of the window: class, depth below the root, state
    status_var,      \* Application.status_var
    dialog           \* the mapping dialog that is open, and who opened it

vars == <<source_df, mapping_in, mapping_arg, mapping, grouped_keys, transformed, final_df,
          template_df,
          messages, phase, default_deductible, plan_df, plan_given,
          structure, current_mapping, mapping_confidence,
          sig_structures, sig_results,
          mappings, heap, disk, clock, calls, prior, writable, twin,
          sheet_df, sheet_structure,
          numeric_columns, deductible_column,
          named_columns, column_suggestions,
          msg_queue, runs, widgets, status_var, dialog>>

mapVars == <<structure, current_mapping, mapping_confidence>>

sigVars == <<sig_structures, sig_results>>

cacheVars == <<mappings, heap, disk, clock, calls, prior, writable, twin>>

sheetVars == <<sheet_df, sheet_structure>>

deductVars == <<numeric_columns, deductible_column>>

suggestVars == <<named_columns, column_suggestions>>

uiVars == <<msg_queue, runs, widgets, status_var, dialog>>

moreVars == <<deductVars, suggestVars, uiVars>>

NoPattern == "none"

\* the buttons main.py creates (lines 223, 248, 281, 414, 426, 442): all of
\* class tk.Button, the three action buttons four levels below the root
Buttons ==
    << [name |-> "browse_btn1", class |-> "tk.Button", depth |-> 4, state |-> "normal"],
       [name |-> "browse_btn2", class |-> "tk.Button", depth |-> 4, state |-> "normal"],
       [name |-> "browse_btn", class |-> "tk.Button", depth |-> 4, state |-> "normal"],
       [name |-> "process_btn", class |-> "tk.Button", depth |-> 4, state |-> "normal"],
       [name |-> "preview_btn", class |-> "tk.Button", depth |-> 4, state |-> "normal"],
       [name |-> "exit_btn", class |-> "tk.Button", depth |-> 4, state |-> "normal"] >>

otherVars == <<mapVars, sigVars, cacheVars, template_df, sheetVars, moreVars>>

planVars == <<default_deductible, plan_df, plan_given>>

pipelineVars == <<source_df, mapping_in, mapping_arg, mapping, grouped_keys, transformed,
                  final_df, template_df, messages>>

-----------------------------------------------------------------------------
(* Bounds *)

MaxRows == 2

MaxPlanRows == 2

MaxCols == 2

MaxSigCalls == 2

MaxOps == 3

MaxFields == 3

MaxDeductCols == 3

MaxSuggestCols == 3

MaxRuns == 2

-----------------------------------------------------------------------------
(* Text *)

EMPTY == <<>>

NaN == <<"NaN">>

None == <<"None">>

UpperCase == <<"A","B","C","D","E","F","G","H","I","J","K","L","M",
               "N","O","P","Q","R","S","T","U","V","W","X","Y","Z">>

LowerCase == <<"a","b","c","d","e","f","g","h","i","j","k","l","m",
               "n","o","p","q","r","s","t","u","v","w","x","y","z">>

isdigit(c) == c \in {"0","1","2","3","4","5","6","7","8","9"}

lowerChar(c) ==
    IF \E i \in DOMAIN UpperCase : UpperCase[i] = c
    THEN LowerCase[CHOOSE i \in DOMAIN UpperCase : UpperCase[i] = c]
    ELSE c

upperChar(c) ==
    IF \E i \in DOMAIN LowerCase : LowerCase[i] = c
    THEN UpperCase[CHOOSE i \in DOMAIN LowerCase : LowerCase[i] = c]
    ELSE c

lower(s) == [i \in 1..Len(s) |-> lowerChar(s[i])]

upper(s) == [i \in 1..Len(s) |-> upperChar(s[i])]

RECURSIVE lstrip(_)
lstrip(s) == IF s # <<>> /\ Head(s) = " " THEN lstrip(Tail(s)) ELSE s

RECURSIVE rstrip(_)
rstrip(s) ==
    IF s # <<>> /\ s[Len(s)] = " " THEN rstrip(SubSeq(s, 1, Len(s) - 1)) ELSE s

strip(s) == rstrip(lstrip(s))

\* Python's  sub in s
Contains(sub, s) ==
    \E i \in 1..(Len(s) - Len(sub) + 1) : SubSeq(s, i, i + Len(sub) - 1) = sub

startswith(s, p) == Len(s) >= Len(p) /\ SubSeq(s, 1, Len(p)) = p

\* ''.join(c for c in s if c.isdigit())
DigitsOf(s) == SelectSeq(s, isdigit)

DigitValue(c) == CHOOSE n \in 0..9 : <<"0","1","2","3","4","5","6","7","8","9">>[n + 1] = c

\* int(val) of a non-empty text of digits
RECURSIVE int(_)
int(s) == IF s = <<>> THEN 0
          ELSE 10 * int(SubSeq(s, 1, Len(s) - 1)) + DigitValue(s[Len(s)])

\* sep.join(parts)
RECURSIVE join(_, _)
join(sep, parts) ==
    IF parts = <<>> THEN <<>>
    ELSE IF Len(parts) = 1 THEN parts[1]
    ELSE parts[1] \o sep \o join(sep, Tail(parts))

Range(s) == {s[i] : i \in DOMAIN s}

\* pandas: pd.notna and Series.fillna('')
notna(cell) == cell # NaN /\ cell # None

fillna(cell) == IF notna(cell) THEN cell ELSE EMPTY

-----------------------------------------------------------------------------
(* Field names *)

Coverage == <<"C","o","v","e","r","a","g","e">>
Class == <<"C","l","a","s","s">>
Deductible == <<"D","e","d","u","c","t","i","b","l","e">>
RateCost == <<"R","a","t","e","C","o","s","t">>
PlanDeduct == <<"P","l","a","n","D","e","d","u","c","t">>
Deduct == <<"D","e","d","u","c","t">>
CompanyCode == <<"C","o","m","p","a","n","y","C","o","d","e">>
Term == <<"T","e","r","m">>
Miles == <<"M","i","l","e","s">>
FromMiles == <<"F","r","o","m","M","i","l","e","s">>
ToMiles == <<"T","o","M","i","l","e","s">>
State == <<"S","t","a","t","e">>
Markup == <<"M","a","r","k","u","p">>
NewUsed == <<"N","e","w","/","U","s","e","d">>
MaxYears == <<"M","a","x","Y","e","a","r","s">>
SurchargeCode == <<"S","u","r","c","h","a","r","g","e","C","o","d","e">>
PlanCode == <<"P","l","a","n","C","o","d","e">>
RateCardCode == <<"R","a","t","e","C","a","r","d","C","o","d","e">>
ClassListCode == <<"C","l","a","s","s","L","i","s","t","C","o","d","e">>
MinYear == <<"M","i","n","Y","e","a","r">>
IncScCode == <<"I","n","c","S","c","C","o","d","e">>
IncScAmt == <<"I","n","c","S","c","A","m","t">>
IncSCode == <<"I","n","c","S","C","o","d","e">>
IncSAmt == <<"I","n","c","S","A","m","t">>

Deduct0 == Deduct \o <<"0">>
Deduct50 == Deduct \o <<"5","0">>
Deduct100 == Deduct \o <<"1","0","0">>
Deduct200 == Deduct \o <<"2","0","0">>
Deduct250 == Deduct \o <<"2","5","0">>
Deduct500 == Deduct \o <<"5","0","0">>

required_cols ==
    <<CompanyCode, Term, Miles, FromMiles, ToMiles, Coverage, State, Class,
      PlanDeduct, Markup, NewUsed, MaxYears, SurchargeCode, PlanCode,
      RateCardCode, ClassListCode, MinYear, IncScCode, IncScAmt>>

standard_deducts == <<Deduct0, Deduct50, Deduct100, Deduct200, Deduct250, Deduct500>>

template_columns ==
    <<CompanyCode, Term, Miles, FromMiles, ToMiles, Coverage, State, Class,
      PlanDeduct, Deduct0, Deduct50, Deduct100, Deduct200, Deduct250, Deduct500,
      Markup, NewUsed, MaxYears, SurchargeCode, PlanCode, RateCardCode,
      ClassListCode, MinYear, IncScCode, IncScAmt>>

\* no analysis made
NotAnalyzed == [by |-> "none", raised |-> FALSE, columns |-> <<>>]

\* the template sheet as shipped: the template's columns and no row
StandardTemplate == [columns |-> template_columns, rows |-> <<>>]

-----------------------------------------------------------------------------
(* dict: an insertion-ordered sequence of <<key, value>> pairs *)

keys(d) == [i \in 1..Len(d) |-> d[i][1]]

has(d, k) == \E i \in 1..Len(d) : d[i][1] = k

get(d, k) == IF has(d, k) THEN d[CHOOSE i \in 1..Len(d) : d[i][1] = k][2] ELSE None

put(d, k, v) ==
    IF has(d, k)
    THEN [i \in 1..Len(d) |-> IF d[i][1] = k THEN <<k, v>> ELSE d[i]]
    ELSE Append(d, <<k, v>>)

\* _create_default_mappings at time t
create_default_mappings(t) ==
    [file_mappings |-> <<>>,
     named_templates |-> <<>>,
     metadata |-> << <<"created", t>>, <<"version", "1.0">> >>]

\* a JSON array where the document should have an object
json_list == <<"[]">>

\* isinstance(x, dict)
is_dict(x) == x # json_list

\* what json.dump writes of the mappings: every reference of an index is
\* written out as the record it points to
json_document(m, h) ==
    [file_mappings |-> IF is_dict(m.file_mappings)
                       THEN [i \in DOMAIN m.file_mappings |->
                               <<m.file_mappings[i][1], h[m.file_mappings[i][2]]>>]
                       ELSE json_list,
     named_templates |-> [i \in DOMAIN m.named_templates |->
                             <<m.named_templates[i][1], h[m.named_templates[i][2]]>>],
     metadata |-> m.metadata]

\* no file at config_path
NoFile ==
    [exists |-> FALSE, reads |-> "object",
     document |-> json_document(create_default_mappings(0), <<>>)]

\* _load_mappings (169-187) at time t: the mappings and the records they
\* refer to.  json.load gives every entry of an index a record of its own.
load_mappings(d, t) ==
    IF ~d.exists \/ d.reads # "object"
    THEN [mappings |-> create_default_mappings(t), heap |-> <<>>]
    ELSE LET fm == d.document.file_mappings
             nt == d.document.named_templates
             nf == IF is_dict(fm) THEN Len(fm) ELSE 0
         IN [mappings |->
               [file_mappings |-> IF is_dict(fm)
                                  THEN [i \in 1..nf |-> <<fm[i][1], i>>]
                                  ELSE json_list,
                named_templates |-> [j \in DOMAIN nt |-> <<nt[j][1], nf + j>>],
                metadata |-> d.document.metadata],
             heap |-> [i \in 1..(nf + Len(nt)) |->
                         IF i <= nf THEN fm[i][2] ELSE nt[i - nf][2]]]

\* MappingConfigManager.__init__ (149-167) at time 0 over the file d
Created(d) ==
    /\ disk = d
    /\ mappings = load_mappings(d, 0).mappings
    /\ heap = load_mappings(d, 0).heap
    /\ clock = 1
    /\ calls = <<>>
    /\ prior = [mappings |-> mappings, heap |-> heap, disk |-> disk]
    /\ twin = [mappings |-> mappings, heap |-> heap, disk |-> disk]

\* the manager of a first run: no file yet, and a directory it can write to
NewCache ==
    /\ writable = TRUE
    /\ Created(NoFile)

\* columns of a DataFrame are a sequence of names, rows a sequence of
\* functions from the names to cells
AddColumns(cols, more) ==
    LET New(c) == c \notin Range(cols) IN cols \o SelectSeq(more, New)

-----------------------------------------------------------------------------
(* The adjusted-rates sheet: four columns, two of them grouping fields *)

Cov == <<"C","o","v">>
Cls == <<"C","l","s">>
Ded == <<"D","e","d">>
Amt == <<"A","m","t">>
Gone == <<"G","o","n","e">>

source_columns == <<Cov, Cls, Ded, Amt>>

CovCells == { <<"B">>, <<"B","|","|">> }

ClsCells == { <<"C">>, <<"|","|","C">> }

TierCells == { <<"1","0","0">>, <<"1","0","0",".","0">>, <<"5","0">>,
               <<"n","o","n","e">>, EMPTY }

ValueCells == { <<"4","5",".","0">>, <<"6","0",".","0">>, EMPTY }

SourceRows ==
    { [c \in Range(source_columns) |->
          IF c = Cov THEN r[1] ELSE IF c = Cls THEN r[2]
          ELSE IF c = Ded THEN r[3] ELSE r[4]] :
      r \in CovCells \X ClsCells \X TierCells \X ValueCells }

\* mappings a run can be handed: generate_mapping leaves Deductible and
\* RateCost to detect_pivot_columns, the dialog returns what the user chose
FullMapping ==
    << <<Coverage, Cov>>, <<Class, Cls>>, <<Deductible, Ded>>, <<RateCost, Amt>> >>

Mappings ==
    { FullMapping,
      << <<Coverage, Cov>>, <<Class, Cls>>, <<RateCost, Amt>> >>,
      << <<Coverage, Cov>>, <<Class, Cls>>, <<Deductible, Ded>> >>,
      << <<Coverage, Cov>>, <<Class, Cls>>, <<PlanDeduct, Cls>>, <<RateCardCode, Cov>> >>,
      << <<Coverage, Cov>>, <<Class, Cls>>, <<Deductible, Gone>>, <<RateCost, Amt>> >> }

-----------------------------------------------------------------------------
(* Application.detect_pivot_columns *)

deductible_patterns ==
    << <<"d","e","d","u","c","t","i","b","l","e">>, <<"d","e","d","u","c","t">>,
       <<"d","e","d">>, <<"d","e","d","u","c">> >>

rate_cost_patterns ==
    << <<"r","a","t","e","c","o","s","t">>, <<"r","a","t","e"," ","c","o","s","t">>,
       <<"c","o","s","t">>, <<"p","r","i","c","e">>,
       <<"p","r","e","m","i","u","m">>, <<"r","a","t","e">> >>

AnyPattern(patterns, col) == \E i \in DOMAIN patterns : Contains(patterns[i], lower(col))

\* the sheet's structure as analyze_file_structure builds it: data_type is one
\* of unknown/integer/float/datetime/string and patterns has no
\* 'deductible_column', so the structure branch (main.py 1749-1787) finds
\* no column: its number_cols is empty and deduct_col is None
detect_pivot_columns(columns, m) ==
    LET IsDed(c) == AnyPattern(deductible_patterns, c)
        IsRate(c) == AnyPattern(rate_cost_patterns, c)
        dedHits == SelectSeq(columns, IsDed)
        rateHits == SelectSeq(columns, IsRate)
        m1 == IF ~has(m, Deductible) /\ dedHits # <<>>
              THEN put(m, Deductible, dedHits[1]) ELSE m
        m2 == IF ~has(m, RateCost) /\ rateHits # <<>>
              THEN put(m1, RateCost, rateHits[1]) ELSE m1
    IN IF has(m, Deductible) /\ has(m, RateCost) THEN m ELSE m2

-----------------------------------------------------------------------------
(* DataProcessor.transform_data *)

s_deduct == <<"d","e","d","u","c","t">>

s_nan == <<"n","a","n">>

cost_words == << <<"r","a","t","e">>, <<"c","o","s","t">>, <<"p","r","e","m","i","u","m">> >>

\* STEP 2 (lines 116-132): the auto-assignment writes into the caller's dict,
\* and what it assigns is a key of the mapping (a template field name)
auto_assign(m) ==
    LET HasDeduct(f) == Contains(s_deduct, lower(f))
        HasCost(f) == AnyPattern(cost_words, f)
        deductible_cols == SelectSeq(keys(m), HasDeduct)
        cost_cols == SelectSeq(keys(m), HasCost)
        m1 == IF ~has(m, Deductible) /\ deductible_cols # <<>>
              THEN put(m, Deductible, deductible_cols[1]) ELSE m
        m2 == IF ~has(m1, RateCost) /\ cost_cols # <<>>
              THEN put(m1, RateCost, cost_cols[1]) ELSE m1
    IN IF ~has(m, Deductible) \/ ~has(m, RateCost) THEN m2 ELSE m

\* STEP 3 (lines 141-144)
inverse_mapping(m, columns) ==
    LET Keep(p) == p[2] # EMPTY /\ p[1] # EMPTY /\ p[2] \in Range(columns)
    IN SelectSeq(m, Keep)

\* STEP 4 (lines 156-162): one column per mapped field, NaN filled with ''
renamed_df(rows, inv) ==
    [columns |-> keys(inv),
     rows |-> [i \in 1..Len(rows) |->
                  [f \in Range(keys(inv)) |-> fillna(rows[i][get(inv, f)])]]]

\* STEP 5 (lines 168-169)
group_cols(columns) ==
    LET Groups(c) == c \notin {Deductible, RateCost, PlanDeduct}
    IN SelectSeq(columns, Groups)

\* lines 192-200
key_parts(row, gcols) ==
    [j \in 1..Len(gcols) |-> IF notna(row[gcols[j]]) THEN row[gcols[j]] ELSE EMPTY]

separator == <<"|","|">>

row_key(row, gcols) == join(separator, key_parts(row, gcols))

\* lines 204-205
row_deductible(row) == IF notna(row[Deductible]) THEN strip(row[Deductible]) ELSE EMPTY

row_rate_cost(row) == IF notna(row[RateCost]) THEN row[RateCost] ELSE None

\* line 217
skipped(row) ==
    \/ row_deductible(row) = EMPTY
    \/ lower(row_deductible(row)) = s_nan
    \/ row_rate_cost(row) = None

\* lines 233, 239
deductible_clean(row) == DigitsOf(row_deductible(row))

deduct_col(row) == Deduct \o deductible_clean(row)

\* lines 222-228: a new entry holds the group column values
new_entry(row, gcols) ==
    [j \in 1..Len(gcols) |-> <<gcols[j], key_parts(row, gcols)[j]>>]

\* line 243
write_cell(entry, col, value) == put(entry, col, value)

\* one pass of the loop body (lines 190-244) over grouped_data, a dict from
\* key to entry, each entry a dict from column to cell
pivot_row(grouped_data, row, gcols) ==
    LET key == row_key(row, gcols)
        g1 == IF has(grouped_data, key) THEN grouped_data
              ELSE put(grouped_data, key, new_entry(row, gcols))
    IN IF skipped(row) THEN grouped_data
       ELSE IF deductible_clean(row) = EMPTY THEN g1
       ELSE put(g1, key, write_cell(get(g1, key), deduct_col(row), row_rate_cost(row)))

RECURSIVE pivot(_, _, _)
pivot(grouped_data, rows, gcols) ==
    IF rows = <<>> THEN grouped_data
    ELSE pivot(pivot_row(grouped_data, Head(rows), gcols), Tail(rows), gcols)

\* pd.DataFrame(list(grouped_data.values())) (line 247): the columns are the
\* entries' keys in order of first appearance, a missing cell is NaN
RECURSIVE union_columns(_)
union_columns(entries) ==
    IF entries = <<>> THEN <<>>
    ELSE AddColumns(union_columns(SubSeq(entries, 1, Len(entries) - 1)),
                    keys(entries[Len(entries)]))

frame_of(grouped_data) ==
    LET entries == [i \in 1..Len(grouped_data) |-> grouped_data[i][2]]
        cols == union_columns(entries)
    IN [columns |-> cols,
        rows |-> [i \in 1..Len(entries) |->
                     [c \in Range(cols) |->
                         IF has(entries[i], c) THEN get(entries[i], c) ELSE NaN]]]

\* DataFrame.empty
empty(df) == Len(df.rows) = 0 \/ Len(df.columns) = 0

\* a fill that puts a numeric zero where no value was supplied
blank_zero(cell) == IF notna(cell) THEN cell ELSE <<"0">>

\* the value every missing column gets and every NaN is replaced by
\* (lines 272, 278, 282)
blank(cell) == fillna(cell)

\* STEP 7 (lines 263-282)
with_defaults(df) ==
    LET cols == AddColumns(AddColumns(df.columns, required_cols), standard_deducts)
    IN [columns |-> cols,
        rows |-> [i \in 1..Len(df.rows) |->
                     [c \in Range(cols) |->
                         IF c \in Range(df.columns) THEN blank(df.rows[i][c])
                         ELSE blank(NaN)]]]

source_frame(rows) == [columns |-> source_columns, rows |-> rows]

\* the whole of transform_data: what it returns, the keys of grouped_data,
\* and the mapping dict as it leaves it
transform_data(rows, m) ==
    LET src == source_frame(rows)
        m2 == auto_assign(m)
        inv == inverse_mapping(m2, source_columns)
        ren == renamed_df(rows, inv)
        gcols == group_cols(ren.columns)
        grouped_data == pivot(<<>>, ren.rows, gcols)
        result_df == frame_of(grouped_data)
        out(kind, df, gk, mm) == [kind |-> kind, df |-> df, keys |-> gk, mapping |-> mm]
    IN IF empty(src) THEN out("empty_source", src, <<>>, m)
       ELSE IF ~has(m2, Deductible) \/ ~has(m2, RateCost)
            THEN out("source", src, <<>>, m2)
       ELSE IF ~has(inv, Deductible) \/ ~has(inv, RateCost)
            THEN out("source", src, <<>>, m2)
       ELSE IF Deductible \notin Range(ren.columns) \/ RateCost \notin Range(ren.columns)
            THEN out("renamed", ren, <<>>, m2)
       ELSE IF empty(result_df) THEN out("renamed", ren, keys(grouped_data), m2)
       ELSE out("pivot", with_defaults(result_df), keys(grouped_data), m2)

-----------------------------------------------------------------------------
(* DataProcessor.integrate_with_template *)

s_None == <<"N","o","n","e">>

s_NaN == <<"N","a","N">>

\* astype(str) then replace({'nan': '', 'None': '', 'NaN': ''}) (lines 359-361)
as_text(cell) ==
    LET text == IF cell = NaN THEN s_nan ELSE IF cell = None THEN s_None ELSE cell
    IN IF text \in {s_nan, s_None, s_NaN} THEN EMPTY ELSE text

\* lines 348-355: the frame starts with the template's columns and no row; the
\* first column copied from transformed_data gives it that frame's rows, a
\* column set to the scalar '' before that is NaN in them, and when no
\* template column exists in transformed_data the frame keeps no row
\* template_path is not read
integrate_with_template(df, template_path) ==
    LET Shared(c) == c \in Range(df.columns)
        shared == SelectSeq(template_columns, Shared)
        n == IF shared = <<>> THEN 0 ELSE Len(df.rows)
    IN [columns |-> template_columns,
        rows |-> [i \in 1..n |->
                     [c \in Range(template_columns) |->
                         IF Shared(c) THEN as_text(fillna(df.rows[i][c]))
                         ELSE as_text(EMPTY)]]]

-----------------------------------------------------------------------------
(* Application.continue_processing (main.py 839-996) *)

NoFrame == [columns |-> <<>>, rows |-> <<>>]

NoResult == [kind |-> "none", df |-> NoFrame]

\* the msg_queue entries the handler posts for a run, the trailing
\* enable_controls of its finally clause included
run_messages(emptyInput, emptyTransformed, emptyFinal, saved) ==
    ( IF emptyInput THEN << "show_error: Empty Data" >>
      ELSE IF emptyTransformed THEN << "show_error: Transformation Error" >>
      ELSE (IF emptyFinal THEN << "show_error: Integration Warning" >> ELSE <<>>)
           \o (IF saved THEN << "show_info: Processing Complete" >>
               ELSE << "show_error: Save Error" >>) )
    \o << "enable_controls" >>

AddSourceRow ==
    /\ phase = "input"
    /\ Len(source_df) < MaxRows
    /\ \E r \in SourceRows : source_df' = Append(source_df, r)
    /\ UNCHANGED <<mapping_in, mapping_arg, mapping, grouped_keys, transformed,
                   final_df, messages, phase, planVars, otherVars>>

continue_processing ==
    /\ phase = "input"
    /\ \E m \in Mappings, saved \in BOOLEAN :
         \E detected \in {IF ~has(m, Deductible) \/ ~has(m, RateCost)
                          THEN detect_pivot_columns(source_columns, m) ELSE m} :
         \E t \in {transform_data(source_df, detected)} :
         \E integrated \in {integrate_with_template(t.df, template_df)} :
         LET emptyInput == empty(source_frame(source_df))
         IN /\ mapping_in' = m
            /\ mapping_arg' = detected
            /\ IF emptyInput
               THEN /\ mapping' = detected
                    /\ grouped_keys' = <<>>
                    /\ transformed' = NoResult
                    /\ final_df' = NoFrame
                    /\ messages' = run_messages(TRUE, FALSE, FALSE, FALSE)
               ELSE /\ mapping' = t.mapping
                    /\ grouped_keys' = t.keys
                    /\ transformed' = [kind |-> t.kind, df |-> t.df]
                    /\ final_df' = IF empty(t.df) THEN NoFrame
                                   ELSE IF empty(integrated) THEN t.df
                                   ELSE integrated
                    /\ messages' = run_messages(FALSE, empty(t.df), empty(integrated), saved)
    /\ phase' = "done"
    /\ UNCHANGED <<source_df, planVars, otherVars>>

-----------------------------------------------------------------------------
(* DataProcessor._add_plan_deduct_column *)

\* code points in ascending order, for the comparison of two column names
\* that carry the same number
CodeOrder ==
    <<" ", "/", "0","1","2","3","4","5","6","7","8","9">> \o UpperCase \o LowerCase \o <<"|">>

ord(c) == CHOOSE i \in DOMAIN CodeOrder : CodeOrder[i] = c

RECURSIVE text_less(_, _)
text_less(a, b) ==
    IF b = <<>> THEN FALSE
    ELSE IF a = <<>> THEN TRUE
    ELSE IF Head(a) = Head(b) THEN text_less(Tail(a), Tail(b))
    ELSE ord(Head(a)) < ord(Head(b))

\* str(val) of a non-negative int
RECURSIVE str_int(_)
str_int(n) ==
    LET d == <<"0","1","2","3","4","5","6","7","8","9">>[(n % 10) + 1]
    IN IF n < 10 THEN <<d>> ELSE str_int(n \div 10) \o <<d>>

\* line 387
deduct_columns(columns) ==
    LET IsDeduct(c) == startswith(c, Deduct) /\ c # PlanDeduct
    IN SelectSeq(columns, IsDeduct)

pair_less(p, q) == p[1] < q[1] \/ (p[1] = q[1] /\ text_less(p[2], q[2]))

RECURSIVE sorted(_)
sorted(pairs) ==
    IF pairs = <<>> THEN <<>>
    ELSE LET least == CHOOSE i \in DOMAIN pairs :
                         \A j \in DOMAIN pairs : ~pair_less(pairs[j], pairs[i])
             rest == [k \in 1..(Len(pairs) - 1) |->
                         IF k < least THEN pairs[k] ELSE pairs[k + 1]]
         IN <<pairs[least]>> \o sorted(rest)

\* lines 394-404: (int(digits of the name), name), sorted
deduct_values(columns) ==
    LET HasDigits(c) == DigitsOf(c) # EMPTY
        named == SelectSeq(deduct_columns(columns), HasDigits)
    IN sorted([i \in 1..Len(named) |-> <<int(DigitsOf(named[i])), named[i]>>])

\* the test the rules apply to a tier cell (lines 418, 428, 436, 442)
has_value(cell) == notna(cell)

\* lines 427-430 and 441-444: the first tier in ascending order whose cell
\* passes the test; the cell is left as it is when there is none
lowest_deductible(row, dvals, current) ==
    LET Hit(p) == has_value(row[p[2]])
        hits == SelectSeq(dvals, Hit)
    IN IF hits = <<>> THEN current ELSE str_int(hits[1][1])

s_100 == <<"1","0","0">>

low_classes == { <<"C">>, <<"D">> }

\* lines 412-444, for one row: which rule decided, and the PlanDeduct cell
plan_deduct(row, columns, default, current) ==
    LET dvals == deduct_values(columns)
        default_col == Deduct \o default
    IN IF default # EMPTY /\ default_col \in Range(columns) /\ has_value(row[default_col])
       THEN [rule |-> "a", value |-> default]
       ELSE IF Class \in Range(columns) /\ notna(row[Class])
               /\ upper(strip(row[Class])) \in low_classes
       THEN [rule |-> "b", value |-> lowest_deductible(row, dvals, current)]
       ELSE IF Deduct100 \in Range(columns) /\ has_value(row[Deduct100])
       THEN [rule |-> "c", value |-> s_100]
       ELSE [rule |-> "d", value |-> lowest_deductible(row, dvals, current)]

desired_order ==
    <<CompanyCode, Term, Miles, FromMiles, ToMiles, Coverage, State, Class, PlanDeduct>>

remaining_order ==
    <<Markup, NewUsed, MaxYears, SurchargeCode, PlanCode, RateCardCode,
      ClassListCode, MinYear, IncSCode, IncSAmt>>

\* an ordering that leaves the columns where the frame has them
given_order(columns) == columns

\* lines 449-484
final_order(columns) ==
    LET Present(c) == c \in Range(columns)
        sorted_deduct_cols ==
            [i \in 1..Len(deduct_values(columns)) |-> deduct_values(columns)[i][2]]
    IN AddColumns(AddColumns(AddColumns(SelectSeq(desired_order, Present),
                                        SelectSeq(sorted_deduct_cols, Present)),
                             SelectSeq(remaining_order, Present)),
                  columns)

\* the whole function: the frame it returns and, per row, the rule that decided
add_plan_deduct_column(df, default) ==
    LET cols == IF PlanDeduct \in Range(df.columns) THEN df.columns
                ELSE Append(df.columns, PlanDeduct)
        before(i) == [c \in Range(cols) |->
                         IF c \in Range(df.columns) THEN df.rows[i][c] ELSE None]
        decided(i) == plan_deduct(before(i), cols, default, before(i)[PlanDeduct])
    IN IF empty(df) \/ deduct_columns(df.columns) = <<>>
       THEN [columns |-> df.columns, rows |-> df.rows, rules |-> <<>>]
       ELSE [columns |-> final_order(cols),
             rows |-> [i \in 1..Len(df.rows) |->
                          [c \in Range(cols) |->
                              IF c = PlanDeduct THEN decided(i).value ELSE before(i)[c]]],
             rules |-> [i \in 1..Len(df.rows) |-> decided(i).rule]]

\* the default deductible is a setting the user types
DefaultChoices == { s_100, <<"5","0">>, <<"1","0","0","0">>, EMPTY }

RECURSIVE RowSeqs(_)
RowSeqs(n) ==
    IF n = 0 THEN { <<>> }
    ELSE RowSeqs(n - 1) \cup
         { Append(s, r) : s \in { t \in RowSeqs(n - 1) : Len(t) = n - 1 }, r \in SourceRows }

\* the frames _add_plan_deduct_column is given are frames transform_data returns
PlanInputs ==
    { transform_data(rows, FullMapping).df : rows \in RowSeqs(MaxPlanRows) \ { <<>> } }

SetDefaultDeductible ==
    /\ phase = "plan_in"
    /\ \E d \in DefaultChoices \ {default_deductible} : default_deductible' = d
    /\ UNCHANGED <<pipelineVars, phase, plan_df, plan_given, otherVars>>

AddPlanDeductColumn ==
    /\ phase = "plan_in"
    /\ plan_df' = add_plan_deduct_column(plan_df, default_deductible)
    /\ phase' = "plan_out"
    /\ UNCHANGED <<pipelineVars, default_deductible, plan_given, otherVars>>

-----------------------------------------------------------------------------
(* Specifications *)

Init ==
    /\ source_df = <<>>
    /\ mapping_in = <<>>
    /\ mapping_arg = <<>>
    /\ mapping = <<>>
    /\ grouped_keys = <<>>
    /\ transformed = NoResult
    /\ final_df = NoFrame
    /\ msg_queue = <<>>
    /\ runs = <<>>
    /\ widgets = Buttons
    /\ status_var = "Ready"
    /\ dialog = "none"
    /\ named_columns = <<>>
    /\ column_suggestions = NoPattern
    /\ numeric_columns = <<>>
    /\ deductible_column = NoPattern
    /\ template_df = StandardTemplate
    /\ sheet_df = <<>>
    /\ sheet_structure = NotAnalyzed
    /\ messages = <<>>
    /\ phase = "input"
    /\ default_deductible = s_100
    /\ plan_df = [columns |-> <<>>, rows |-> <<>>, rules |-> <<>>]
    /\ plan_given = <<>>
    /\ structure = [columns |-> <<>>, column_mapping_suggestions |-> <<>>]
    /\ current_mapping = <<>>
    /\ mapping_confidence = <<>>
    /\ sig_structures = <<>>
    /\ sig_results = <<>>
    /\ NewCache

Next == AddSourceRow \/ continue_processing

Spec == Init /\ [][Next]_vars

\* _add_plan_deduct_column on its own, over the frames transform_data returns
InitPlan ==
    /\ source_df = <<>>
    /\ mapping_in = <<>>
    /\ mapping_arg = <<>>
    /\ mapping = <<>>
    /\ grouped_keys = <<>>
    /\ transformed = NoResult
    /\ final_df = NoFrame
    /\ msg_queue = <<>>
    /\ runs = <<>>
    /\ widgets = Buttons
    /\ status_var = "Ready"
    /\ dialog = "none"
    /\ named_columns = <<>>
    /\ column_suggestions = NoPattern
    /\ numeric_columns = <<>>
    /\ deductible_column = NoPattern
    /\ template_df = StandardTemplate
    /\ sheet_df = <<>>
    /\ sheet_structure = NotAnalyzed
    /\ messages = <<>>
    /\ phase = "plan_in"
    /\ default_deductible = s_100
    /\ \E df \in PlanInputs :
         /\ plan_df = [columns |-> df.columns, rows |-> df.rows, rules |-> <<>>]
         /\ plan_given = df.columns
    /\ structure = [columns |-> <<>>, column_mapping_suggestions |-> <<>>]
    /\ current_mapping = <<>>
    /\ mapping_confidence = <<>>
    /\ sig_structures = <<>>
    /\ sig_results = <<>>
    /\ NewCache

NextPlan == SetDefaultDeductible \/ AddPlanDeductColumn

SpecPlan == InitPlan /\ [][NextPlan]_vars

-----------------------------------------------------------------------------
(* FileAnalyzer._suggest_column_mappings (file_analyzer.py 139-251) *)

\* the keyword lists, in the order of the dict (lines 151-162)
standard_fields ==
    << <<<<"c","o","v","e","r","a","g","e">>,
          <<
            <<"c","o","v","e","r","a","g","e">>, <<"c","o","v","e","r","a","g","e","n","a","m","e">>, <<"c","o","v","e","r","a","g","e"," ","n","a","m","e">>,
            <<"c","o","v","e","r","a","g","e"," ","t","y","p","e">>, <<"c","o","v">>, <<"p","l","a","n">>,
            <<"p","r","o","d","u","c","t">> >>>>,
       <<<<"t","e","r","m">>,
          <<
            <<"t","e","r","m">>, <<"t","e","r","m","m","o","n","t","h","s">>, <<"t","e","r","m"," ","m","o","n","t","h","s">>,
            <<"m","o","n","t","h","s">>, <<"t","e","r","m"," ","l","e","n","g","t","h">> >>>>,
       <<<<"m","i","l","e","s">>,
          <<
            <<"m","i","l","e","s">>, <<"t","e","r","m","m","i","l","e","s">>, <<"t","e","r","m"," ","m","i","l","e","s">>,
            <<"m","i","l","e","a","g","e">> >>>>,
       <<<<"f","r","o","m","m","i","l","e","s">>,
          <<
            <<"f","r","o","m","m","i","l","e","s">>, <<"f","r","o","m"," ","m","i","l","e","s">>, <<"m","i","n"," ","m","i","l","e","s">>,
            <<"m","i","n","m","i","l","e","s">>, <<"m","i","l","e","s"," ","f","r","o","m">>, <<"s","t","a","r","t","i","n","g"," ","m","i","l","e","s">> >>>>,
       <<<<"t","o","m","i","l","e","s">>,
          <<
            <<"t","o","m","i","l","e","s">>, <<"t","o"," ","m","i","l","e","s">>, <<"m","a","x"," ","m","i","l","e","s">>,
            <<"m","a","x","m","i","l","e","s">>, <<"m","i","l","e","s"," ","t","o">>, <<"e","n","d","i","n","g"," ","m","i","l","e","s">> >>>>,
       <<<<"m","i","n","y","e","a","r">>,
          <<
            <<"m","i","n","y","e","a","r">>, <<"m","i","n"," ","y","e","a","r">>, <<"y","e","a","r"," ","m","i","n">>,
            <<"m","o","d","e","l"," ","y","e","a","r"," ","m","i","n">>, <<"m","i","n","i","m","u","m"," ","y","e","a","r">> >>>>,
       <<<<"m","a","x","y","e","a","r">>,
          <<
            <<"m","a","x","y","e","a","r">>, <<"m","a","x"," ","y","e","a","r">>, <<"y","e","a","r"," ","m","a","x">>,
            <<"m","o","d","e","l"," ","y","e","a","r"," ","m","a","x">>, <<"m","a","x","i","m","u","m"," ","y","e","a","r">> >>>>,
       <<<<"c","l","a","s","s">>,
          <<
            <<"c","l","a","s","s">>, <<"v","e","h","i","c","l","e"," ","c","l","a","s","s">>, <<"r","a","t","e"," ","c","l","a","s","s">>,
            <<"r","a","t","e","c","l","a","s","s">>, <<"c","l","a","s","s"," ","c","o","d","e">> >>>>,
       <<<<"r","a","t","e","c","o","s","t">>,
          <<
            <<"r","a","t","e","c","o","s","t">>, <<"r","a","t","e">>, <<"c","o","s","t">>,
            <<"p","r","i","c","e">>, <<"p","r","e","m","i","u","m">>, <<"d","e","a","l","e","r"," ","c","o","s","t">>,
            <<"d","e","a","l","e","r","c","o","s","t">> >>>>,
       <<<<"d","e","d","u","c","t","i","b","l","e">>,
          <<
            <<"d","e","d","u","c","t","i","b","l","e">>, <<"d","e","d">>, <<"d","e","d","u","c","t">>,
            <<"d","e","d","u","c","t","a","b","l","e">> >>>> >>

\* the regular expressions (lines 165-172): each is a case-insensitive search
\* for one word
pattern_matchers ==
    << <<<<"c","o","v","e","r","a","g","e">>, <<<<"c","o","v","e","r","a","g","e">>, <<"p","l","a","n">>, <<"p","r","o","d","u","c","t">>>>>>,
       <<<<"t","e","r","m">>, <<<<"t","e","r","m">>, <<"m","o","n","t","h">>>>>>,
       <<<<"m","i","l","e","s">>, <<<<"m","i","l","e">>>>>>,
       <<<<"c","l","a","s","s">>, <<<<"c","l","a","s","s">>, <<"t","i","e","r">>>>>>,
       <<<<"r","a","t","e","c","o","s","t">>, <<<<"r","a","t","e">>, <<"c","o","s","t">>, <<"p","r","i","c","e">>>>>>,
       <<<<"d","e","d","u","c","t","i","b","l","e">>, <<<<"d","e","d","u","c","t">>>>>> >>

s_deductible == <<"d","e","d","u","c","t","i","b","l","e">>

\* a column of the sheet as pandas reads it: its name, whether its dtype is
\* numeric, and the str() of its distinct non-null values
ColumnKinds ==
    { [name |-> <<"c","o","v","e","r","a","g","e">>, numeric |-> FALSE,
       values |-> << <<"G","o","l","d">>, <<"S","i","l","v","e","r">> >>],
      [name |-> Coverage, numeric |-> FALSE,
       values |-> << <<"G","o","l","d">>, <<"S","i","l","v","e","r">> >>],
      [name |-> <<"P","l","a","n">>, numeric |-> FALSE,
       values |-> << <<"G","o","l","d">>, <<"S","i","l","v","e","r">> >>],
      [name |-> <<"c","l","a","s","s">>, numeric |-> TRUE,
       values |-> << <<"1">>, <<"2">> >>],
      [name |-> <<"D","e","d">>, numeric |-> TRUE,
       values |-> << <<"0">>, <<"1","0","0">> >>],
      [name |-> <<"T","i","e","r">>, numeric |-> FALSE,
       values |-> << <<"A">>, <<"B">> >>],
      [name |-> <<"A","m","t">>, numeric |-> TRUE,
       values |-> << <<"4","5",".","0">>, <<"6","0",".","5">> >>],
      [name |-> <<"F","r","o","m"," ","M","i","l","e","s">>, numeric |-> TRUE,
       values |-> << <<"0">>, <<"1","0","0","0">> >>],
      [name |-> <<"N","o","t","e","s">>, numeric |-> FALSE, values |-> <<>>] }

names(columns) == [i \in 1..Len(columns) |-> columns[i].name]

integer_part(text) ==
    IF \E n \in 1..Len(text) : text[n] = "."
    THEN SubSeq(text, 1, (CHOOSE n \in 1..Len(text) :
                             text[n] = "." /\ \A m \in 1..(n - 1) : text[m] # ".") - 1)
    ELSE text

\* int(x) == x
is_integral(text) ==
    \A n \in (Len(integer_part(text)) + 2)..Len(text) : text[n] = "0"

\* analyze_file_structure, lines 76-91
data_type(col) ==
    IF col.values = <<>> THEN "unknown"
    ELSE IF col.numeric
         THEN (IF \A n \in DOMAIN col.values : is_integral(col.values[n])
               THEN "integer" ELSE "float")
    ELSE "string"

\* lines 185-199: the score of a column name for a standard field
name_score(std, keywords, col) ==
    LET col_lower == lower(col.name)
    IN IF col_lower = std THEN 100
       ELSE IF col_lower \in Range(keywords) THEN 90
       ELSE IF \E n \in DOMAIN keywords : Contains(keywords[n], col_lower) THEN 80
       ELSE IF Len(col_lower) >= 3
               /\ \E n \in DOMAIN keywords : Contains(col_lower, keywords[n]) THEN 70
       ELSE IF has(pattern_matchers, std)
               /\ \E n \in DOMAIN get(pattern_matchers, std) :
                     Contains(get(pattern_matchers, std)[n], col_lower) THEN 60
       ELSE 0

\* lines 201-213: five more points for a fitting data type, given whenever
\* the sheet has a column named as the standard field
type_bonus(std, col, columns) ==
    LET dt == data_type(col)
        Is(word) == std = word
        sized == { <<"t","e","r","m">>, <<"m","i","l","e","s">>,
                   <<"f","r","o","m","m","i","l","e","s">>, <<"t","o","m","i","l","e","s">>,
                   <<"m","i","n","y","e","a","r">>, <<"m","a","x","y","e","a","r">>,
                   <<"c","l","a","s","s">> }
    IN IF std \notin Range(names(columns)) THEN 0
       ELSE IF std \in sized /\ dt \in {"integer", "float"} THEN 5
       ELSE IF Is(<<"r","a","t","e","c","o","s","t">>) /\ dt \in {"float", "integer"} THEN 5
       ELSE IF Is(<<"d","e","d","u","c","t","i","b","l","e">>) /\ dt \in {"integer", "float"} THEN 5
       ELSE IF Is(<<"c","o","v","e","r","a","g","e">>) /\ dt = "string" THEN 5
       ELSE 0

column_score(std, keywords, col, columns) ==
    LET score == name_score(std, keywords, col)
    IN IF score > 0 THEN score + type_bonus(std, col, columns) ELSE score

NoMatch == [suggested_column |-> None, confidence |-> 0]

\* lines 180-216: the loop over the columns, a later column wins only with a
\* strictly higher score
RECURSIVE best_column(_, _, _, _, _)
best_column(std, keywords, columns, i, best) ==
    IF i > Len(columns) THEN best
    ELSE LET score == column_score(std, keywords, columns[i], columns)
         IN best_column(std, keywords, columns, i + 1,
                        IF score > best.confidence
                        THEN [suggested_column |-> columns[i].name, confidence |-> score]
                        ELSE best)

\* lines 175-223: one entry per standard field that has a best column of
\* score 50 or more, in the order of standard_fields
name_suggestions(columns) ==
    LET Best(k) == best_column(standard_fields[k][1], standard_fields[k][2],
                               columns, 1, NoMatch)
        Suggested(k) == Best(k).suggested_column # None /\ Best(k).confidence >= 50
        found == SelectSeq([k \in 1..Len(standard_fields) |-> k], Suggested)
    IN [n \in 1..Len(found) |-> <<standard_fields[found[n]][1], Best(found[n])>>]

common_deductibles == {0, 50, 100, 200, 250, 500, 1000}

NotFound == [found |-> FALSE, column |-> None, confidence |-> 0]

Min(a, b) == IF a < b THEN a ELSE b

\* _identify_deductible_column (lines 253-292)
RECURSIVE identify_deductible_column(_, _, _)
identify_deductible_column(columns, i, result) ==
    IF i > Len(columns) THEN result
    ELSE LET col == columns[i]
             Common(n) == /\ is_integral(col.values[n])
                          /\ int(integer_part(col.values[n])) \in common_deductibles
             common_count == Cardinality({ n \in DOMAIN col.values : Common(n) })
             confidence == (common_count * 100) \div Len(col.values)
                           + (IF Contains(s_deduct, lower(col.name)) THEN 20 ELSE 0)
             hit == /\ data_type(col) \in {"integer", "float"}
                    /\ Len(col.values) > 0
                    /\ 2 * common_count >= Len(col.values) /\ common_count >= 2
                    /\ confidence > result.confidence
         IN identify_deductible_column(columns, i + 1,
                IF hit THEN [found |-> TRUE, column |-> col.name,
                             confidence |-> Min(confidence, 100)]
                ELSE result)

s_class == <<"c","l","a","s","s">>

\* _identify_class_column (lines 294-335)
RECURSIVE identify_class_column(_, _, _)
identify_class_column(columns, i, result) ==
    IF i > Len(columns) THEN result
    ELSE LET col == columns[i]
             vals == col.values
             Digits(v) == v # <<>> /\ \A n \in DOMAIN v : isdigit(v[n])
             confidence ==
                 30
                 + (IF \A n \in DOMAIN vals : Len(vals[n]) <= 3 THEN 20 ELSE 0)
                 + (IF \A n \in DOMAIN vals :
                         Digits(vals[n])
                         \/ Contains(upper(vals[n]), <<"A","B","C","D","E","F">>)
                    THEN 20 ELSE 0)
                 + (IF Contains(s_class, lower(col.name)) THEN 30 ELSE 0)
             hit == /\ Len(vals) >= 2 /\ Len(vals) <= 10
                    /\ confidence > result.confidence
         IN identify_class_column(columns, i + 1,
                IF hit THEN [found |-> TRUE, column |-> col.name,
                             confidence |-> Min(confidence, 100)]
                ELSE result)

\* the whole of _suggest_column_mappings: a dict from standard field to
\* suggested column and confidence
suggest_column_mappings(columns) ==
    LET byName == name_suggestions(columns)
        deduct_pattern == identify_deductible_column(columns, 1, NotFound)
        class_pattern == identify_class_column(columns, 1, NotFound)
        withDeduct ==
            IF deduct_pattern.found /\ ~has(byName, s_deductible)
            THEN put(byName, s_deductible,
                     [suggested_column |-> deduct_pattern.column,
                      confidence |-> deduct_pattern.confidence])
            ELSE byName
    IN IF class_pattern.found /\ ~has(withDeduct, s_class)
       THEN put(withDeduct, s_class,
                [suggested_column |-> class_pattern.column,
                 confidence |-> class_pattern.confidence])
       ELSE withDeduct

-----------------------------------------------------------------------------
(* MappingSystem.generate_mapping (mapping_system.py 53-139) *)

\* lines 31-36
required_fields ==
    <<CompanyCode, Term, Miles, FromMiles, ToMiles, Coverage, State, Class,
      PlanDeduct, Deduct0, Deduct50, Deduct100, Deduct200, Deduct250, Deduct500,
      Markup, NewUsed, MaxYears, SurchargeCode, PlanCode, RateCardCode,
      ClassListCode, MinYear, IncScCode, IncScAmt>>

protected_fields == { RateCardCode, RateCost }

NoSpaces(s) == LET Kept(c) == c # " " IN SelectSeq(s, Kept)

\* STEP 2 (lines 74-86): suggestions of confidence 90 and more are taken over
\* with their confidence
use_suggestions(suggestions) ==
    LET Taken(field) == /\ has(suggestions, lower(field))
                        /\ get(suggestions, lower(field)).confidence >= 90
        fields == SelectSeq(required_fields, Taken)
    IN [mapping |-> [n \in 1..Len(fields) |->
                        <<fields[n], get(suggestions, lower(fields[n])).suggested_column>>],
        confidence |-> [n \in 1..Len(fields) |->
                           <<fields[n], get(suggestions, lower(fields[n])).confidence>>]]

\* STEP 3 (lines 88-98): a field not yet mapped takes the first column whose
\* lower-cased name is its own, with confidence 100
exact_matches(source_cols, r) ==
    LET Exact(field) == { n \in DOMAIN source_cols : lower(source_cols[n]) = lower(field) }
        Hit(field) == ~has(r.mapping, field) /\ Exact(field) # {}
        fields == SelectSeq(required_fields, Hit)
        First(field) == source_cols[CHOOSE n \in Exact(field) : \A m \in Exact(field) : n <= m]
    IN [mapping |-> r.mapping \o [n \in 1..Len(fields) |-> <<fields[n], First(fields[n])>>],
        confidence |-> r.confidence \o [n \in 1..Len(fields) |-> <<fields[n], 100>>]]

\* STEP 5 (lines 103-129), for the fields that can match at all: among the
\* columns no field is mapped to yet, the first whose name is the field's, or
\* is the field's once spaces are removed
RECURSIVE content_guesses(_, _, _)
content_guesses(source_cols, fields, r) ==
    IF fields = <<>> THEN r
    ELSE LET field == Head(fields)
             used == { r.mapping[n][2] : n \in DOMAIN r.mapping }
             Match(col) == /\ col \notin used
                           /\ NoSpaces(lower(field)) = NoSpaces(lower(col))
             hits == SelectSeq(source_cols, Match)
             best_score == IF lower(hits[1]) = lower(field) THEN 100 ELSE 90
         IN content_guesses(source_cols, Tail(fields),
                IF ~has(r.mapping, field) /\ hits # <<>>
                THEN [mapping |-> put(r.mapping, field, hits[1]),
                      confidence |-> put(r.confidence, field, best_score)]
                ELSE r)

\* the mapping and the confidence map it leaves in the MappingSystem;
\* suggestions is empty when the caller passes a list of column names
generate_mapping(source_cols, suggestions) ==
    LET Guessable(field) ==
            /\ field \notin protected_fields
            /\ \E n \in DOMAIN source_cols :
                  NoSpaces(lower(field)) = NoSpaces(lower(source_cols[n]))
    IN content_guesses(source_cols, SelectSeq(required_fields, Guessable),
                       exact_matches(source_cols, use_suggestions(suggestions)))

-----------------------------------------------------------------------------
(* The analysis of a sheet followed by the generation of its mapping *)

NoStructure == [columns |-> <<>>, column_mapping_suggestions |-> <<>>]

RECURSIVE ColumnSeqs(_)
ColumnSeqs(n) ==
    IF n = 0 THEN { <<>> }
    ELSE ColumnSeqs(n - 1) \cup
         { Append(s, c) : s \in { t \in ColumnSeqs(n - 1) : Len(t) = n - 1 },
                          c \in ColumnKinds }

\* analyze_file_structure (file_analyzer.py 41-138) of a sheet with columns
analyze_file_structure ==
    /\ phase = "map_in"
    /\ structure = NoStructure
    /\ \E columns \in ColumnSeqs(MaxCols) :
         /\ columns # <<>>
         /\ \A m, n \in DOMAIN columns : m # n => columns[m].name # columns[n].name
         /\ structure' = [columns |-> columns,
                          column_mapping_suggestions |-> suggest_column_mappings(columns)]
    /\ UNCHANGED <<pipelineVars, phase, planVars, sheetVars, moreVars, current_mapping, mapping_confidence,
                   sigVars, cacheVars>>

\* generate_mapping called with the structure (test_app.py 112) or with the
\* list of its column names (main.py 784)
GenerateMapping ==
    /\ phase = "map_in"
    /\ structure # NoStructure
    /\ \E with_structure \in BOOLEAN :
         \E r \in { generate_mapping(names(structure.columns),
                                     IF with_structure
                                     THEN structure.column_mapping_suggestions
                                     ELSE <<>>) } :
           /\ current_mapping' = r.mapping
           /\ mapping_confidence' = r.confidence
    /\ phase' = "map_out"
    /\ UNCHANGED <<pipelineVars, planVars, sheetVars, moreVars, structure, sigVars, cacheVars>>

InitMap ==
    /\ source_df = <<>>
    /\ mapping_in = <<>>
    /\ mapping_arg = <<>>
    /\ mapping = <<>>
    /\ grouped_keys = <<>>
    /\ transformed = NoResult
    /\ final_df = NoFrame
    /\ msg_queue = <<>>
    /\ runs = <<>>
    /\ widgets = Buttons
    /\ status_var = "Ready"
    /\ dialog = "none"
    /\ named_columns = <<>>
    /\ column_suggestions = NoPattern
    /\ numeric_columns = <<>>
    /\ deductible_column = NoPattern
    /\ template_df = StandardTemplate
    /\ sheet_df = <<>>
    /\ sheet_structure = NotAnalyzed
    /\ messages = <<>>
    /\ phase = "map_in"
    /\ default_deductible = s_100
    /\ plan_df = [columns |-> <<>>, rows |-> <<>>, rules |-> <<>>]
    /\ plan_given = <<>>
    /\ structure = NoStructure
    /\ current_mapping = <<>>
    /\ mapping_confidence = <<>>
    /\ sig_structures = <<>>
    /\ sig_results = <<>>
    /\ NewCache

NextMap == analyze_file_structure \/ GenerateMapping

SpecMap == InitMap /\ [][NextMap]_vars

-----------------------------------------------------------------------------
(* MappingSystem._generate_file_signature (mapping_system.py 234-253) *)

\* the columns a signature is taken of: two names, each read with different
\* contents, so with different sample values and possibly another data type
SigColumns ==
    { [name |-> <<"C","o","v">>, numeric |-> FALSE, values |-> << <<"G","o","l","d">> >>],
      [name |-> <<"C","o","v">>, numeric |-> FALSE, values |-> << <<"S","i","l","v","e","r">> >>],
      [name |-> <<"C","o","v">>, numeric |-> TRUE, values |-> << <<"1">> >>],
      [name |-> <<"D","e","d">>, numeric |-> TRUE, values |-> << <<"0">>, <<"1","0","0">> >>],
      [name |-> <<"D","e","d">>, numeric |-> TRUE, values |-> << <<"5","0">> >>],
      [name |-> <<"D","e","d">>, numeric |-> TRUE, values |-> << <<"4","5",".","5">> >>] }

\* the 'columns' dict of a structure, in the order the sheet has the columns
column_info(col) == [data_type |-> data_type(col), sample_values |-> col.values]

SigStructures ==
    { [row_count |-> n,
       columns |-> [i \in 1..Len(cols) |-> <<cols[i].name, column_info(cols[i])>>]] :
      n \in {1, 2},
      cols \in { <<>> } \cup { <<c>> : c \in SigColumns }
                \cup { p \in SigColumns \X SigColumns : p[1].name # p[2].name } }

type_text(dt) ==
    IF dt = "integer" THEN <<"i","n","t","e","g","e","r">>
    ELSE IF dt = "float" THEN <<"f","l","o","a","t">>
    ELSE IF dt = "string" THEN <<"s","t","r","i","n","g">>
    ELSE IF dt = "datetime" THEN <<"d","a","t","e","t","i","m","e">>
    ELSE <<"u","n","k","n","o","w","n">>

\* str() of a list of texts
list_repr(items) ==
    <<"[">> \o join(<<",", " ">>, [i \in 1..Len(items) |-> <<"'">> \o items[i] \o <<"'">>])
            \o <<"]">>

\* an enumeration of the keys as the dict gives them
unsorted_columns(columns) == columns

\* sorted(list(...keys())): ascending by code point
RECURSIVE sorted_columns(_)
sorted_columns(columns) ==
    IF columns = <<>> THEN <<>>
    ELSE LET least == CHOOSE i \in DOMAIN columns :
                         \A j \in DOMAIN columns : ~text_less(columns[j], columns[i])
             rest == [k \in 1..(Len(columns) - 1) |->
                         IF k < least THEN columns[k] ELSE columns[k + 1]]
         IN <<columns[least]>> \o sorted_columns(rest)

\* hashlib.md5(data).hexdigest(): a function of the bytes it is given
md5(data) == <<"md5", data>>

\* lines 245-250
generate_file_signature(struct) ==
    LET columns == sorted_columns(keys(struct.columns))
        data_types == [i \in 1..Len(columns) |->
                          type_text(get(struct.columns, columns[i]).data_type)]
    IN md5(list_repr(columns) \o list_repr(data_types))

CallGenerateFileSignature ==
    /\ phase = "sig"
    /\ Len(sig_results) < MaxSigCalls
    /\ \E which \in DOMAIN sig_structures :
         sig_results' = Append(sig_results,
                               [structure |-> which,
                                signature |-> generate_file_signature(sig_structures[which])])
    /\ UNCHANGED <<pipelineVars, phase, planVars, sheetVars, moreVars, mapVars, sig_structures, cacheVars>>

InitSig ==
    /\ source_df = <<>>
    /\ mapping_in = <<>>
    /\ mapping_arg = <<>>
    /\ mapping = <<>>
    /\ grouped_keys = <<>>
    /\ transformed = NoResult
    /\ final_df = NoFrame
    /\ msg_queue = <<>>
    /\ runs = <<>>
    /\ widgets = Buttons
    /\ status_var = "Ready"
    /\ dialog = "none"
    /\ named_columns = <<>>
    /\ column_suggestions = NoPattern
    /\ numeric_columns = <<>>
    /\ deductible_column = NoPattern
    /\ template_df = StandardTemplate
    /\ sheet_df = <<>>
    /\ sheet_structure = NotAnalyzed
    /\ messages = <<>>
    /\ phase = "sig"
    /\ default_deductible = s_100
    /\ plan_df = [columns |-> <<>>, rows |-> <<>>, rules |-> <<>>]
    /\ plan_given = <<>>
    /\ structure = NoStructure
    /\ current_mapping = <<>>
    /\ mapping_confidence = <<>>
    /\ sig_structures \in SigStructures \X SigStructures
    /\ sig_results = <<>>
    /\ NewCache

NextSig == CallGenerateFileSignature

SpecSig == InitSig /\ [][NextSig]_vars

-----------------------------------------------------------------------------
(* MappingConfigManager (config_manager.py): the saved mappings *)

s_metadata == <<"m","e","t","a","d","a","t","a">>

\* bool(x) of a name or of a dict: None and the empty one are false
truthy(x) == x # None /\ x # <<>>

\* _save_mappings (205-222) at time t, the file being d before: the mappings
\* afterwards and the file.  metadata.updated is assigned before the file is
\* opened; an open that fails is logged and nothing is written.
save_mappings(m, h, t, d, w) ==
    LET updated == [m EXCEPT !.metadata = put(@, "updated", t)]
    IN [mappings |-> updated,
        disk |-> IF w
                 THEN [exists |-> TRUE, reads |-> "object",
                       document |-> json_document(updated, h)]
                 ELSE d]

\* save_mapping lines 257-270: the copy of the mapping with its metadata
with_meta(m, name, t) ==
    LET copy == IF has(m, s_metadata) THEN m ELSE put(m, s_metadata, <<>>)
        stamped == put(put(get(copy, s_metadata), "saved", t), "last_used", t)
    IN put(copy, s_metadata,
           IF truthy(name) THEN put(stamped, "name", name) ELSE stamped)

\* a by-name index that keeps the record a name already has
keep_named(named, name, ref) ==
    IF truthy(name) /\ ~has(named, name) THEN put(named, name, ref) ELSE named

\* save_mapping lines 279-283
index_by_name(named, name, ref) ==
    IF truthy(name) THEN put(named, name, ref) ELSE named

\* a record left as it is
untouched(rec, t) == rec

\* get_saved_mapping lines 239-243: the record with its last_used set
touch(rec, t) ==
    LET meta == IF has(rec, s_metadata) THEN get(rec, s_metadata) ELSE <<>>
    IN put(rec, s_metadata, put(meta, "last_used", t))

\* a dict that keeps the key
kept(d, k) == d

\* del d[k]
remove(d, k) == SelectSeq(d, LAMBDA e : e[1] # k)

\* the file signatures, mappings and template names the operations are given
Signatures == {"5f2b", "c41d"}

CacheMappings ==
    { FullMapping,
      << <<Coverage, Cov>>, <<Class, Cls>>, <<RateCost, Amt>> >> }

TemplateNames == { <<"A">>, <<"B">> }

\* get_template_names (289-296)
get_template_names == keys(mappings.named_templates)

Snapshot == [mappings |-> mappings, heap |-> heap, disk |-> disk]

\* what a call leaves: the manager's state, what it returned, whether it raised
Returned(m, h, d, result) ==
    [mappings |-> m, heap |-> h, disk |-> d, result |-> result, raised |-> FALSE]

Raised(c) ==
    [mappings |-> c.mappings, heap |-> c.heap, disk |-> c.disk,
     result |-> None, raised |-> TRUE]

\* save_mapping (248-287) of the manager c at time t; the item assignment of
\* line 276 raises TypeError on a list
SaveMapping(c, file_signature, m, mapping_name, t, w) ==
    IF ~is_dict(c.mappings.file_mappings) THEN Raised(c)
    ELSE LET ref == Len(c.heap) + 1
             h == Append(c.heap, with_meta(m, mapping_name, t))
             saved == save_mappings(
                        [c.mappings EXCEPT
                           !.file_mappings = put(@, file_signature, ref),
                           !.named_templates = index_by_name(@, mapping_name, ref)],
                        h, t, c.disk, w)
         IN Returned(saved.mappings, h, saved.disk, None)

\* get_saved_mapping (224-246); .get of line 234 raises AttributeError on a list
GetSavedMapping(c, file_signature, t, w) ==
    IF ~is_dict(c.mappings.file_mappings) THEN Raised(c)
    ELSE IF has(c.mappings.file_mappings, file_signature)
            /\ truthy(c.heap[get(c.mappings.file_mappings, file_signature)])
    THEN LET ref == get(c.mappings.file_mappings, file_signature)
             touched == [c.heap EXCEPT ![ref] = touch(@, t)]
             saved == save_mappings(c.mappings, touched, t, c.disk, w)
         IN Returned(saved.mappings, touched, saved.disk, touched[ref])
    ELSE Returned(c.mappings, c.heap, c.disk, None)

\* delete_template (310-327)
DeleteTemplate(c, template_name, t, w) ==
    IF has(c.mappings.named_templates, template_name)
    THEN LET saved == save_mappings(
                        [c.mappings EXCEPT !.named_templates = remove(@, template_name)],
                        c.heap, t, c.disk, w)
         IN Returned(saved.mappings, c.heap, saved.disk, <<"True">>)
    ELSE Returned(c.mappings, c.heap, c.disk, <<"False">>)

\* get_template (298-308)
GetTemplate(c, template_name) ==
    Returned(c.mappings, c.heap, c.disk,
             IF has(c.mappings.named_templates, template_name)
             THEN c.heap[get(c.mappings.named_templates, template_name)]
             ELSE None)

\* get_template_names (289-296) of the manager c
GetTemplateNames(c) ==
    Returned(c.mappings, c.heap, c.disk, keys(c.mappings.named_templates))

\* f"Mapping {signature[:8]}", of a signature of at most 8 characters
default_name(signature) == <<"M","a","p","p","i","n","g"," ">> \o <<signature>>

\* get_recent_mappings lines 340-352: an entry for every item of
\* file_mappings whose record has a last_used, in the order of the dict
all_mappings(m, h) ==
    LET items == SelectSeq(m.file_mappings,
                           LAMBDA e : /\ has(h[e[2]], s_metadata)
                                      /\ has(get(h[e[2]], s_metadata), "last_used"))
    IN [i \in DOMAIN items |->
          LET rec == h[items[i][2]] IN
          [signature |-> items[i][1],
           mapping |-> rec,
           last_used |-> get(get(rec, s_metadata), "last_used"),
           name |-> IF has(get(rec, s_metadata), "name")
                    THEN get(get(rec, s_metadata), "name")
                    ELSE default_name(items[i][1])]]

\* list.sort(key=last_used, reverse=True): descending, equal keys in the
\* order they had
RECURSIVE sort_recent(_)
sort_recent(entries) ==
    IF entries = <<>> THEN <<>>
    ELSE LET first == CHOOSE i \in DOMAIN entries :
                         /\ \A j \in DOMAIN entries : entries[j].last_used <= entries[i].last_used
                         /\ \A j \in 1..(i - 1) : entries[j].last_used < entries[i].last_used
             rest == [k \in 1..(Len(entries) - 1) |->
                         IF k < first THEN entries[k] ELSE entries[k + 1]]
         IN <<entries[first]>> \o sort_recent(rest)

\* all_mappings[:limit] of a limit that is not negative
head(entries, limit) == SubSeq(entries, 1, Min(limit, Len(entries)))

Limits == {1, 2}

\* get_recent_mappings (329-358); .items of line 343 raises AttributeError on
\* a list
GetRecentMappings(c, limit) ==
    IF ~is_dict(c.mappings.file_mappings) THEN Raised(c)
    ELSE Returned(c.mappings, c.heap, c.disk,
                  head(sort_recent(all_mappings(c.mappings, c.heap)), limit))

\* a call made of the manager, r what it left, and of the twin, tw what it left
Call(op, file_signature, m, mapping_name, limit, r, tw) ==
    /\ phase \in {"cache", "store"}
    /\ Len(calls) < MaxOps
    /\ mappings' = r.mappings
    /\ heap' = r.heap
    /\ disk' = r.disk
    /\ twin' = [mappings |-> tw.mappings, heap |-> tw.heap, disk |-> tw.disk]
    /\ calls' = Append(calls, [op |-> op, signature |-> file_signature,
                               mapping |-> m, name |-> mapping_name, limit |-> limit,
                               time |-> clock,
                               result |-> r.result, raised |-> r.raised,
                               twin_result |-> tw.result, twin_raised |-> tw.raised])
    /\ clock' = clock + 1
    /\ prior' = Snapshot
    /\ UNCHANGED <<pipelineVars, phase, planVars, sheetVars, moreVars, mapVars, sigVars, writable>>

save_mapping ==
    \E file_signature \in Signatures, m \in CacheMappings,
       mapping_name \in {None, <<>>} \cup TemplateNames :
      Call("save", file_signature, m, mapping_name, 0,
           SaveMapping(Snapshot, file_signature, m, mapping_name, clock, writable),
           SaveMapping(twin, file_signature, m, mapping_name, clock, writable))

get_saved_mapping ==
    \E file_signature \in Signatures :
      Call("get", file_signature, <<>>, None, 0,
           GetSavedMapping(Snapshot, file_signature, clock, writable),
           GetSavedMapping(twin, file_signature, clock, writable))

delete_template ==
    \E template_name \in TemplateNames :
      Call("delete", "", <<>>, template_name, 0,
           DeleteTemplate(Snapshot, template_name, clock, writable),
           DeleteTemplate(twin, template_name, clock, writable))

get_template ==
    \E template_name \in TemplateNames :
      Call("template", "", <<>>, template_name, 0,
           GetTemplate(Snapshot, template_name), GetTemplate(twin, template_name))

call_get_template_names ==
    Call("names", "", <<>>, None, 0, GetTemplateNames(Snapshot), GetTemplateNames(twin))

get_recent_mappings ==
    \E limit \in Limits :
      Call("recent", "", <<>>, None, limit,
           GetRecentMappings(Snapshot, limit), GetRecentMappings(twin, limit))

InitCache ==
    /\ source_df = <<>>
    /\ mapping_in = <<>>
    /\ mapping_arg = <<>>
    /\ mapping = <<>>
    /\ grouped_keys = <<>>
    /\ transformed = NoResult
    /\ final_df = NoFrame
    /\ msg_queue = <<>>
    /\ runs = <<>>
    /\ widgets = Buttons
    /\ status_var = "Ready"
    /\ dialog = "none"
    /\ named_columns = <<>>
    /\ column_suggestions = NoPattern
    /\ numeric_columns = <<>>
    /\ deductible_column = NoPattern
    /\ template_df = StandardTemplate
    /\ sheet_df = <<>>
    /\ sheet_structure = NotAnalyzed
    /\ messages = <<>>
    /\ phase = "cache"
    /\ default_deductible = s_100
    /\ plan_df = [columns |-> <<>>, rows |-> <<>>, rules |-> <<>>]
    /\ plan_given = <<>>
    /\ structure = NoStructure
    /\ current_mapping = <<>>
    /\ mapping_confidence = <<>>
    /\ sig_structures = <<>>
    /\ sig_results = <<>>
    /\ NewCache

NextCache ==
    \/ save_mapping
    \/ get_saved_mapping
    \/ delete_template
    \/ get_template
    \/ call_get_template_names
    \/ get_recent_mappings

SpecCache == InitCache /\ [][NextCache]_vars

\* the files a manager is created over: none; one that open() refuses; one
\* that is no JSON; one whose JSON is an array, on which the .get of the
\* logging call at line 182 raises inside the try; and one whose JSON is an
\* object that has an array for file_mappings
StartDisks ==
    { NoFile,
      [NoFile EXCEPT !.exists = TRUE, !.reads = "error"],
      [NoFile EXCEPT !.exists = TRUE, !.reads = "garbage"],
      [NoFile EXCEPT !.exists = TRUE, !.reads = "array"],
      [NoFile EXCEPT !.exists = TRUE, !.document.file_mappings = json_list] }

\* the program is started again: MappingConfigManager() over the file as it is
restart ==
    /\ phase = "store"
    /\ Len(calls) < MaxOps
    /\ mappings' = load_mappings(disk, clock).mappings
    /\ heap' = load_mappings(disk, clock).heap
    /\ UNCHANGED <<disk, clock, calls, prior, writable, twin>>
    /\ UNCHANGED <<pipelineVars, phase, planVars, sheetVars, moreVars, mapVars, sigVars>>

InitStore ==
    /\ source_df = <<>>
    /\ mapping_in = <<>>
    /\ mapping_arg = <<>>
    /\ mapping = <<>>
    /\ grouped_keys = <<>>
    /\ transformed = NoResult
    /\ final_df = NoFrame
    /\ msg_queue = <<>>
    /\ runs = <<>>
    /\ widgets = Buttons
    /\ status_var = "Ready"
    /\ dialog = "none"
    /\ named_columns = <<>>
    /\ column_suggestions = NoPattern
    /\ numeric_columns = <<>>
    /\ deductible_column = NoPattern
    /\ template_df = StandardTemplate
    /\ sheet_df = <<>>
    /\ sheet_structure = NotAnalyzed
    /\ messages = <<>>
    /\ phase = "store"
    /\ default_deductible = s_100
    /\ plan_df = [columns |-> <<>>, rows |-> <<>>, rules |-> <<>>]
    /\ plan_given = <<>>
    /\ structure = NoStructure
    /\ current_mapping = <<>>
    /\ mapping_confidence = <<>>
    /\ sig_structures = <<>>
    /\ sig_results = <<>>
    /\ writable \in BOOLEAN
    /\ \E d \in StartDisks : Created(d)

NextStore == NextCache \/ restart

SpecStore == InitStore /\ [][NextStore]_vars

-----------------------------------------------------------------------------
(* DataProcessor.integrate_with_template on the frames of transform_data *)

\* a row of the template sheet
template_row(coverage, class, rate) ==
    [c \in Range(template_columns) |->
        IF c = Coverage THEN coverage
        ELSE IF c = Class THEN class
        ELSE IF c = Deduct100 THEN rate
        ELSE EMPTY]

s_99 == <<"9","9",".","0">>

\* the template sheets: the one shipped, one with a placeholder row, and a
\* sheet of five rows of rates, the first for the Coverage and Class of the
\* source sheet's rows
Templates ==
    { StandardTemplate,
      [columns |-> template_columns,
       rows |-> << template_row(EMPTY, EMPTY, EMPTY) >>],
      [columns |-> template_columns,
       rows |-> << template_row(<<"B">>, <<"C">>, s_99),
                   template_row(<<"Z">>, <<"1">>, s_99),
                   template_row(<<"Z">>, <<"2">>, s_99),
                   template_row(<<"Z">>, <<"3">>, s_99),
                   template_row(<<"Z">>, <<"4">>, s_99) >>] }

\* the rows of the adjusted sheet, one more tier among them
IntegrateRows ==
    { [c \in Range(source_columns) |->
          IF c = Cov THEN r[1] ELSE IF c = Cls THEN r[2]
          ELSE IF c = Ded THEN r[3] ELSE r[4]] :
      r \in CovCells \X ClsCells \X (TierCells \cup { <<"7","5">> }) \X ValueCells }

\* main.py 921-936: transform_data, then integrate_with_template on what it
\* returned
IntegrateWithTemplate ==
    /\ phase = "integrate_in"
    /\ \E t \in {transform_data(source_df, FullMapping)} :
         /\ mapping_in' = FullMapping
         /\ mapping_arg' = FullMapping
         /\ mapping' = t.mapping
         /\ grouped_keys' = t.keys
         /\ transformed' = [kind |-> t.kind, df |-> t.df]
         /\ final_df' = integrate_with_template(t.df, template_df)
    /\ phase' = "integrate_out"
    /\ UNCHANGED <<source_df, template_df, messages, planVars, sheetVars, moreVars, mapVars, sigVars, cacheVars>>

InitIntegrate ==
    /\ source_df \in { <<r>> : r \in IntegrateRows }
                     \cup { <<r, q>> : r \in IntegrateRows, q \in IntegrateRows }
    /\ Len(source_df) <= MaxRows
    /\ mapping_in = <<>>
    /\ mapping_arg = <<>>
    /\ mapping = <<>>
    /\ grouped_keys = <<>>
    /\ transformed = NoResult
    /\ final_df = NoFrame
    /\ msg_queue = <<>>
    /\ runs = <<>>
    /\ widgets = Buttons
    /\ status_var = "Ready"
    /\ dialog = "none"
    /\ named_columns = <<>>
    /\ column_suggestions = NoPattern
    /\ numeric_columns = <<>>
    /\ deductible_column = NoPattern
    /\ template_df \in Templates
    /\ sheet_df = <<>>
    /\ sheet_structure = NotAnalyzed
    /\ messages = <<>>
    /\ phase = "integrate_in"
    /\ default_deductible = s_100
    /\ plan_df = [columns |-> <<>>, rows |-> <<>>, rules |-> <<>>]
    /\ plan_given = <<>>
    /\ structure = NoStructure
    /\ current_mapping = <<>>
    /\ mapping_confidence = <<>>
    /\ sig_structures = <<>>
    /\ sig_results = <<>>
    /\ NewCache

NextIntegrate == IntegrateWithTemplate

SpecIntegrate == InitIntegrate /\ [][NextIntegrate]_vars

-----------------------------------------------------------------------------
(* FileAnalyzer.analyze_sheet_structure (file_analyzer.py 393-494) and the  *)
(* column loop of FileAnalyzer.analyze_file_structure (71-137) on frames    *)
(* with a field whose analysis raises                                       *)

\* what a field of the frame holds: whole numbers (int64); numbers with an
\* infinite one among them (float64), on which int(x) raises OverflowError;
\* lists (object), on which nunique() and unique() raise TypeError
FieldContents == {"numbers", "inf", "lists"}

FieldLabels == { <<"a">>, <<"b">> }

SheetFields == [name : FieldLabels, content : FieldContents]

\* str(df[col].dtype)
dtype(field) ==
    IF field.content = "numbers" THEN <<"i","n","t","6","4">>
    ELSE IF field.content = "inf" THEN <<"f","l","o","a","t","6","4">>
    ELSE <<"o","b","j","e","c","t">>

\* df[col] is a DataFrame, not a Series, when the label is that of two columns
is_frame(df, col) == Cardinality({ n \in DOMAIN df : df[n].name = col }) > 1

\* analyze_sheet_structure lines 414-476 for one column: "profile" when the
\* try block ends; "error" when it raises (tolist of a DataFrame at 419,
\* nunique at 423) and the handler's profile is stored; "raise" when the
\* handler raises too (dtype of a DataFrame at 481)
sheet_column(df, n) ==
    IF is_frame(df, df[n].name) THEN "raise"
    ELSE IF df[n].content = "lists" THEN "error"
    ELSE "profile"

\* analyze_sheet_structure: the columns dict after the loop, or the raise
RECURSIVE sheet_columns(_, _, _)
sheet_columns(df, n, columns) ==
    IF n > Len(df) THEN [by |-> "sheet", raised |-> FALSE, columns |-> columns]
    ELSE IF sheet_column(df, n) = "raise"
         THEN [by |-> "sheet", raised |-> TRUE, columns |-> <<>>]
    ELSE sheet_columns(df, n + 1,
                       put(columns, df[n].name,
                           [data_type |-> dtype(df[n]),
                            error |-> sheet_column(df, n) = "error"]))

\* analyze_file_structure lines 72-106 for one column: the data type, or a
\* raise (int(x) at 82, unique() at 91), which leaves the loop and the
\* function by the handler at 134-137
file_column(field) ==
    IF field.content = "numbers" THEN "integer" ELSE "raise"

\* analyze_file_structure: the columns dict after the loop, or the raise
RECURSIVE file_columns(_, _, _)
file_columns(df, n, columns) ==
    IF n > Len(df) THEN [by |-> "file", raised |-> FALSE, columns |-> columns]
    ELSE IF file_column(df[n]) = "raise"
         THEN [by |-> "file", raised |-> TRUE, columns |-> <<>>]
    ELSE file_columns(df, n + 1,
                      put(columns, df[n].name,
                          [data_type |-> <<"i","n","t","e","g","e","r">>,
                           error |-> FALSE]))

AnalyzeSheetStructure ==
    /\ phase = "sheet_in"
    /\ sheet_structure' = sheet_columns(sheet_df, 1, <<>>)
    /\ phase' = "sheet_out"
    /\ UNCHANGED <<pipelineVars, planVars, mapVars, sigVars, cacheVars, sheet_df, moreVars>>

\* pd.read_excel gives no two columns one label and no cell a list
AnalyzeFileStructure ==
    /\ phase = "sheet_in"
    /\ \A n \in DOMAIN sheet_df :
         ~is_frame(sheet_df, sheet_df[n].name) /\ sheet_df[n].content # "lists"
    /\ sheet_structure' = file_columns(sheet_df, 1, <<>>)
    /\ phase' = "sheet_out"
    /\ UNCHANGED <<pipelineVars, planVars, mapVars, sigVars, cacheVars, sheet_df, moreVars>>

FieldSeqs(n) ==
    UNION { [1..k -> SheetFields] : k \in 1..n }

InitSheet ==
    /\ source_df = <<>>
    /\ mapping_in = <<>>
    /\ mapping_arg = <<>>
    /\ mapping = <<>>
    /\ grouped_keys = <<>>
    /\ transformed = NoResult
    /\ final_df = NoFrame
    /\ msg_queue = <<>>
    /\ runs = <<>>
    /\ widgets = Buttons
    /\ status_var = "Ready"
    /\ dialog = "none"
    /\ named_columns = <<>>
    /\ column_suggestions = NoPattern
    /\ numeric_columns = <<>>
    /\ deductible_column = NoPattern
    /\ template_df = StandardTemplate
    /\ messages = <<>>
    /\ phase = "sheet_in"
    /\ default_deductible = s_100
    /\ plan_df = [columns |-> <<>>, rows |-> <<>>, rules |-> <<>>]
    /\ plan_given = <<>>
    /\ structure = NoStructure
    /\ current_mapping = <<>>
    /\ mapping_confidence = <<>>
    /\ sig_structures = <<>>
    /\ sig_results = <<>>
    /\ NewCache
    /\ sheet_df \in FieldSeqs(MaxFields)
    /\ sheet_structure = NotAnalyzed

NextSheet == AnalyzeSheetStructure \/ AnalyzeFileStructure

SpecSheet == InitSheet /\ [][NextSheet]_vars

-----------------------------------------------------------------------------
(* FileAnalyzer._identify_deductible_column (file_analyzer.py 253-292) over
   the numeric columns of a sheet, in the order of the sheet *)

\* numeric columns by name and distinct values: all, five of six, two of
\* three or none of the values are common deductible amounts
DeductColumns ==
    { [name |-> <<"D","e","d","u","c","t","i","b","l","e">>, numeric |-> TRUE,
       values |-> << <<"0">>, <<"1","0","0">> >>],
      [name |-> <<"D","e","d","u","c","t"," ","A","l","t">>, numeric |-> TRUE,
       values |-> << <<"0">>, <<"5","0">>, <<"1","0","0">>, <<"2","0","0">>, <<"2","5","0">>, <<"7","5">> >>],
      [name |-> <<"D","e","d"," ","T","i","e","r">>, numeric |-> TRUE,
       values |-> << <<"0">>, <<"5","0">> >>],
      [name |-> <<"D","e","d","u","c","t"," ","A","m","t">>, numeric |-> TRUE,
       values |-> << <<"0">>, <<"1","0","0">>, <<"4","5">> >>],
      [name |-> <<"A","m","o","u","n","t">>, numeric |-> TRUE,
       values |-> << <<"0">>, <<"1","0","0">>, <<"4","5">> >>],
      [name |-> <<"R","a","t","e">>, numeric |-> TRUE,
       values |-> << <<"4","5",".","0">>, <<"6","0",".","5">> >>] }

DeductSeqs(n) ==
    { s \in UNION { [1..k -> DeductColumns] : k \in 1..n } :
        \A i, j \in DOMAIN s : i # j => s[i].name # s[j].name }

\* the call at lines 232 and 363
IdentifyDeductibleColumn ==
    /\ phase = "deduct_in"
    /\ deductible_column' = identify_deductible_column(numeric_columns, 1, NotFound)
    /\ phase' = "deduct_out"
    /\ UNCHANGED <<pipelineVars, planVars, mapVars, sigVars, cacheVars, sheetVars,
                   numeric_columns, suggestVars, uiVars>>

InitDeduct ==
    /\ source_df = <<>>
    /\ mapping_in = <<>>
    /\ mapping_arg = <<>>
    /\ mapping = <<>>
    /\ grouped_keys = <<>>
    /\ transformed = NoResult
    /\ final_df = NoFrame
    /\ msg_queue = <<>>
    /\ runs = <<>>
    /\ widgets = Buttons
    /\ status_var = "Ready"
    /\ dialog = "none"
    /\ named_columns = <<>>
    /\ column_suggestions = NoPattern
    /\ numeric_columns \in DeductSeqs(MaxDeductCols)
    /\ deductible_column = NoPattern
    /\ template_df = StandardTemplate
    /\ messages = <<>>
    /\ phase = "deduct_in"
    /\ default_deductible = s_100
    /\ plan_df = [columns |-> <<>>, rows |-> <<>>, rules |-> <<>>]
    /\ plan_given = <<>>
    /\ structure = NoStructure
    /\ current_mapping = <<>>
    /\ mapping_confidence = <<>>
    /\ sig_structures = <<>>
    /\ sig_results = <<>>
    /\ NewCache
    /\ sheet_df = <<>>
    /\ sheet_structure = NotAnalyzed

NextDeduct == IdentifyDeductibleColumn

SpecDeduct == InitDeduct /\ [][NextDeduct]_vars

-----------------------------------------------------------------------------
(* fuzzywuzzy.fuzz over difflib.SequenceMatcher, as file_analyzer.py 616-618
   calls it *)

\* SequenceMatcher.get_matching_blocks between a[alo..ahi] and b[blo..bhi]:
\* the longest common block, the earliest in a and then in b among the
\* longest, and the blocks to its left and to its right
RECURSIVE matching_blocks(_, _, _, _, _, _)
matching_blocks(a, b, alo, ahi, blo, bhi) ==
    LET common == { m \in (alo..ahi) \X (blo..bhi) \X (1..(ahi - alo + 1)) :
                      /\ m[1] + m[3] - 1 <= ahi
                      /\ m[2] + m[3] - 1 <= bhi
                      /\ SubSeq(a, m[1], m[1] + m[3] - 1) = SubSeq(b, m[2], m[2] + m[3] - 1) }
        Before(m, n) == \/ m[3] > n[3]
                        \/ m[3] = n[3] /\ m[1] < n[1]
                        \/ m[3] = n[3] /\ m[1] = n[1] /\ m[2] <= n[2]
    IN IF common = {} THEN {}
       ELSE LET x == CHOOSE m \in common : \A n \in common : Before(m, n)
            IN {x} \cup matching_blocks(a, b, alo, x[1] - 1, blo, x[2] - 1)
                   \cup matching_blocks(a, b, x[1] + x[3], ahi, x[2] + x[3], bhi)

RECURSIVE matched(_)
matched(blocks) ==
    IF blocks = {} THEN 0
    ELSE LET x == CHOOSE m \in blocks : TRUE
         IN x[3] + matched(blocks \ {x})

\* utils.intr(100 * SequenceMatcher(None, a, b).ratio()): 2.0 * M / T, times
\* 100, rounded to the nearest integer and to the even one of two
sm_ratio(a, b) ==
    LET total == Len(a) + Len(b)
        twice == 200 * matched(matching_blocks(a, b, 1, Len(a), 1, Len(b)))
        q == twice \div total
        r == twice % total
    IN IF total = 0 THEN 100
       ELSE IF 2 * r > total \/ (2 * r = total /\ q % 2 = 1) THEN q + 1
       ELSE q

\* fuzz.ratio
fuzz_ratio(s1, s2) ==
    IF s1 = s2 THEN 100
    ELSE IF Len(s1) = 0 \/ Len(s2) = 0 THEN 0
    ELSE sm_ratio(s1, s2)

Maximum(S) == CHOOSE x \in S : \A y \in S : y <= x

\* fuzz.partial_ratio: the shorter text against the stretch of the longer one
\* that each matching block lines up, the closing block of length 0 included
partial_ratio(s1, s2) ==
    LET shorter == IF Len(s1) <= Len(s2) THEN s1 ELSE s2
        longer == IF Len(s1) <= Len(s2) THEN s2 ELSE s1
        starts == { IF m[2] - m[1] > 0 THEN m[2] - m[1] ELSE 0 :
                      m \in matching_blocks(shorter, longer, 1, Len(shorter), 1, Len(longer)) }
                  \cup { Len(longer) - Len(shorter) }
        Stretch(long_start) ==
            SubSeq(longer, long_start + 1,
                   IF long_start + Len(shorter) < Len(longer)
                   THEN long_start + Len(shorter) ELSE Len(longer))
    IN IF s1 = s2 THEN 100
       ELSE IF Len(s1) = 0 \/ Len(s2) = 0 THEN 0
       ELSE Maximum({ sm_ratio(shorter, Stretch(t)) : t \in starts })

isalnum(c) ==
    \/ isdigit(c) \/ c = "_"
    \/ \E i \in DOMAIN UpperCase : UpperCase[i] = c \/ LowerCase[i] = c

\* utils.full_process: what is no letter, digit or underscore becomes a space
full_process(text) ==
    strip(lower([i \in 1..Len(text) |-> IF isalnum(text[i]) THEN text[i] ELSE " "]))

\* str.split()
RECURSIVE split(_)
split(text) ==
    LET t == lstrip(text)
        stop == IF \E i \in DOMAIN t : t[i] = " "
                THEN (CHOOSE i \in DOMAIN t : t[i] = " " /\ \A j \in 1..(i - 1) : t[j] # " ") - 1
                ELSE Len(t)
    IN IF t = <<>> THEN <<>>
       ELSE <<SubSeq(t, 1, stop)>> \o split(SubSeq(t, stop + 1, Len(t)))

RECURSIVE sorted_tokens(_)
sorted_tokens(tokens) ==
    IF tokens = <<>> THEN <<>>
    ELSE LET least == CHOOSE i \in DOMAIN tokens :
                         \A j \in DOMAIN tokens : ~text_less(tokens[j], tokens[i])
             rest == [k \in 1..(Len(tokens) - 1) |->
                         IF k < least THEN tokens[k] ELSE tokens[k + 1]]
         IN <<tokens[least]>> \o sorted_tokens(rest)

process_and_sort(text) == strip(join(<<" ">>, sorted_tokens(split(full_process(text)))))

\* fuzz.token_sort_ratio
token_sort_ratio(s1, s2) == fuzz_ratio(process_and_sort(s1), process_and_sort(s2))

-----------------------------------------------------------------------------
(* FileAnalyzer.suggest_column_mappings (file_analyzer.py 546-646) *)

\* lines 556-582, the targets that the columns of SuggestColumns come near
suggest_fields ==
    << << <<"c","o","v","e","r","a","g","e">>, << <<"c","o","v","e","r","a","g","e">>, <<"c","o","v","e","r","a","g","e","t","y","p","e">>, <<"c","o","v","e","r">>, <<"p","r","o","t","e","c","t","i","o","n">>, <<"p","l","a","n">> >> >>,
       << <<"c","l","a","s","s">>, << <<"c","l","a","s","s">>, <<"v","e","h","i","c","l","e","c","l","a","s","s">>, <<"c","a","t","e","g","o","r","y">>, <<"t","i","e","r">>, <<"c","l","a","s","s","i","f","i","c","a","t","i","o","n">> >> >>,
       << <<"p","l","a","n","c","o","d","e">>, << <<"p","l","a","n","c","o","d","e">>, <<"p","l","a","n","_","c","o","d","e">>, <<"p","l","a","n">> >> >> >>

NoSuggestion == [best_match |-> None, best_score |-> 0, match_reason |-> <<>>, left |-> FALSE]

\* lines 604-610: the first synonym the name contains sets 80 over a lower score
synonym_match(col, synonyms, found) ==
    LET held == { n \in DOMAIN synonyms : Contains(synonyms[n], lower(col.name)) }
        first == CHOOSE n \in held : \A m \in held : n <= m
    IN IF held # {} /\ 80 > found.best_score
       THEN [found EXCEPT !.best_match = col.name, !.best_score = 80,
                          !.match_reason = <<"synonym", synonyms[first]>>]
       ELSE found

\* lines 613-626: each of the synonyms and the target in turn
RECURSIVE fuzzy_match(_, _, _, _)
fuzzy_match(col, texts, n, found) ==
    IF n > Len(texts) THEN found
    ELSE LET col_lower == lower(col.name)
             score == Maximum({ fuzz_ratio(col_lower, texts[n]),
                                partial_ratio(col_lower, texts[n]),
                                token_sort_ratio(col_lower, texts[n]) })
         IN fuzzy_match(col, texts, n + 1,
                IF score > found.best_score /\ score > 60
                THEN [found EXCEPT !.best_match = col.name, !.best_score = score,
                                   !.match_reason = <<"fuzzy", texts[n]>>]
                ELSE found)

\* lines 628-635
type_match(col, required_field, found) ==
    IF col.possible_type = required_field /\ 90 > found.best_score
    THEN [found EXCEPT !.best_match = col.name, !.best_score = 90,
                       !.match_reason = <<"type", <<>> >>]
    ELSE found

\* lines 593-635: the loop over the columns for one target
RECURSIVE best_suggestion(_, _, _, _, _)
best_suggestion(required_field, synonyms, columns, i, found) ==
    IF i > Len(columns) \/ found.left THEN found
    ELSE LET col == columns[i]
             by_synonym == synonym_match(col, synonyms, found)
             by_fuzzy == IF by_synonym.best_score < 80
                         THEN fuzzy_match(col, Append(synonyms, required_field), 1, by_synonym)
                         ELSE by_synonym
         IN best_suggestion(required_field, synonyms, columns, i + 1,
                IF lower(col.name) = required_field
                THEN [best_match |-> col.name, best_score |-> 100,
                      match_reason |-> <<"exact", <<>> >>, left |-> TRUE]
                ELSE type_match(col, required_field, by_fuzzy))

\* lines 588-646: the suggestions dict
RECURSIVE suggest_mappings(_, _, _)
suggest_mappings(columns, f, suggested) ==
    IF f > Len(suggest_fields) THEN suggested
    ELSE LET found == best_suggestion(suggest_fields[f][1], suggest_fields[f][2],
                                      columns, 1, NoSuggestion)
         IN suggest_mappings(columns, f + 1,
                IF found.best_match # None
                THEN put(suggested, suggest_fields[f][1],
                         [suggested_column |-> found.best_match,
                          confidence |-> found.best_score,
                          reason |-> found.match_reason])
                ELSE suggested)

\* columns_info entries: the name, and the possible_type that
\* analyze_sheet_structure may have set (None when the key is absent)
SuggestColumns ==
    { [name |-> NAME, possible_type |-> None] : NAME \in { <<"C","o","v","r","a","g","e">>,
                 <<"P","l","a","n">>,
                 <<"C","o","v","e","r"," ","T","y","p","e">>,
                 <<"T","i","e","r">>,
                 <<"C","o","v">>,
                 <<"N","o","t","e","s">>,
                 <<"C","o","v","e","r","a","g","e">> } }
    \cup { [name |-> <<"N","o","t","e","s">>, possible_type |-> <<"c","o","v","e","r","a","g","e">>] }

SuggestSeqs(n) ==
    { s \in UNION { [1..k -> SuggestColumns] : k \in 1..n } :
        \A i, j \in DOMAIN s : i # j => s[i].name # s[j].name }

SuggestColumnMappings ==
    /\ phase = "suggest_in"
    /\ column_suggestions' = suggest_mappings(named_columns, 1, <<>>)
    /\ phase' = "suggest_out"
    /\ UNCHANGED <<pipelineVars, planVars, mapVars, sigVars, cacheVars, sheetVars,
                   deductVars, named_columns, uiVars>>

InitSuggest ==
    /\ source_df = <<>>
    /\ mapping_in = <<>>
    /\ mapping_arg = <<>>
    /\ mapping = <<>>
    /\ grouped_keys = <<>>
    /\ transformed = NoResult
    /\ final_df = NoFrame
    /\ msg_queue = <<>>
    /\ runs = <<>>
    /\ widgets = Buttons
    /\ status_var = "Ready"
    /\ dialog = "none"
    /\ named_columns \in SuggestSeqs(MaxSuggestCols)
    /\ column_suggestions = NoPattern
    /\ numeric_columns = <<>>
    /\ deductible_column = NoPattern
    /\ template_df = StandardTemplate
    /\ messages = <<>>
    /\ phase = "suggest_in"
    /\ default_deductible = s_100
    /\ plan_df = [columns |-> <<>>, rows |-> <<>>, rules |-> <<>>]
    /\ plan_given = <<>>
    /\ structure = NoStructure
    /\ current_mapping = <<>>
    /\ mapping_confidence = <<>>
    /\ sig_structures = <<>>
    /\ sig_results = <<>>
    /\ NewCache
    /\ sheet_df = <<>>
    /\ sheet_structure = NotAnalyzed

NextSuggest == SuggestColumnMappings

SpecSuggest == InitSuggest /\ [][NextSuggest]_vars

-----------------------------------------------------------------------------
(* The window's runs (main.py): process_files on the main thread, the worker
   thread it starts, the queue the threads post to and process_queue that
   takes from it, and the mapping dialog *)

windowRest ==
    <<pipelineVars, phase, planVars, mapVars, sigVars, cacheVars, sheetVars,
      deductVars, suggestVars>>

LowConfidenceStatus == "Low confidence mapping - awaiting user input..."

\* lines 1321-1326: the ttk.Button widgets among the children of the root's
\* children
disable_controls(w) ==
    [n \in DOMAIN w |->
        IF w[n].class = "ttk.Button" /\ w[n].depth = 2
        THEN [w[n] EXCEPT !.state = "disabled"] ELSE w[n]]

\* lines 1328-1333
enable_controls(w) ==
    [n \in DOMAIN w |->
        IF w[n].class = "ttk.Button" /\ w[n].depth = 2
        THEN [w[n] EXCEPT !.state = "normal"] ELSE w[n]]

button(name) == widgets[CHOOSE n \in DOMAIN widgets : widgets[n].name = name]

\* a click reaches a button that is not disabled, of a window that no modal
\* dialog has taken the grab from (mapping_system.py 267)
Clickable(name) == button(name).state # "disabled" /\ dialog = "none"

update_status(message) == [action |-> "update_status", message |-> message]

queued(action) == [action |-> action, message |-> ""]

\* lines 803-806 over what generate_mapping leaves in mapping_confidence for
\* the sheets of ColumnSeqs
LowConfidences ==
    { \E n \in DOMAIN generate_mapping(names(c), <<>>).confidence :
         generate_mapping(names(c), <<>>).confidence[n][2] < 70 :
      c \in { q \in ColumnSeqs(MaxCols) :
                \A m, n \in DOMAIN q : m # n => q[m].name # q[n].name } }

\* lines 709-727
process_files ==
    /\ phase = "window"
    /\ Clickable("process_btn")
    /\ Len(runs) < MaxRuns
    /\ status_var' = "Processing..."
    /\ widgets' = disable_controls(widgets)
    /\ runs' = Append(runs, [pc |-> "worker", inline |-> TRUE, waiting |-> FALSE,
                             outcome |-> "none"])
    /\ UNCHANGED <<msg_queue, dialog, windowRest>>

\* lines 729-826: up to the choice between the dialog and continue_processing,
\* or the handler of lines 827-834; the status messages before the choice
\* are one message here
process_files_worker(i) ==
    /\ phase = "window"
    /\ runs[i].pc = "worker"
    /\ \E raises \in BOOLEAN, low_confidence \in LowConfidences, auto_detect \in BOOLEAN :
         IF raises
         THEN /\ msg_queue' = msg_queue \o << update_status("Error"), queued("show_error") >>
              /\ runs' = [runs EXCEPT ![i].pc = "worker_finally", ![i].outcome = "error"]
         ELSE IF low_confidence /\ auto_detect
         THEN /\ msg_queue' = msg_queue \o << update_status(LowConfidenceStatus),
                                              queued("show_mapping_dialog") >>
              /\ runs' = [runs EXCEPT ![i].pc = "worker_finally", ![i].waiting = TRUE]
         ELSE /\ msg_queue' = msg_queue \o << update_status("Validating mapping confidence...") >>
              /\ runs' = [runs EXCEPT ![i].pc = "continue"]
    /\ UNCHANGED <<widgets, status_var, dialog, windowRest>>

\* lines 839-995 on the thread that called it: the output is saved, or the
\* error is reported
run_continue_processing(i) ==
    /\ phase = "window"
    /\ runs[i].pc = "continue"
    /\ \E saved \in BOOLEAN, auto_open \in BOOLEAN :
         /\ msg_queue' = msg_queue \o
              (IF saved
               THEN << update_status("Processing complete!"), queued("show_info") >>
                    \o (IF auto_open THEN << queued("open_file") >> ELSE <<>>)
               ELSE << update_status("Error"), queued("show_error") >>)
         /\ runs' = [runs EXCEPT ![i].pc = "continue_finally",
                                 ![i].outcome = IF saved THEN "saved" ELSE "error"]
    /\ UNCHANGED <<widgets, status_var, dialog, windowRest>>

\* lines 995-997
continue_finally(i) ==
    /\ phase = "window"
    /\ runs[i].pc = "continue_finally"
    /\ msg_queue' = Append(msg_queue, queued("enable_controls"))
    /\ runs' = [runs EXCEPT ![i].pc = IF runs[i].inline THEN "worker_finally" ELSE "finished"]
    /\ UNCHANGED <<widgets, status_var, dialog, windowRest>>

\* lines 835-837
worker_finally(i) ==
    /\ phase = "window"
    /\ runs[i].pc = "worker_finally"
    /\ msg_queue' = Append(msg_queue, queued("enable_controls"))
    /\ runs' = [runs EXCEPT ![i].pc = IF runs[i].waiting THEN "waiting" ELSE "finished"]
    /\ UNCHANGED <<widgets, status_var, dialog, windowRest>>

\* lines 1237-1319, one entry of the queue; the dialog it opens keeps
\* process_queue from returning and from being scheduled again
process_queue ==
    /\ phase = "window"
    /\ msg_queue # <<>>
    /\ dialog # "queue"
    /\ msg_queue' = Tail(msg_queue)
    /\ status_var' = IF Head(msg_queue).action = "update_status"
                     THEN Head(msg_queue).message ELSE status_var
    /\ widgets' = IF Head(msg_queue).action = "enable_controls"
                  THEN enable_controls(widgets) ELSE widgets
    /\ dialog' = IF Head(msg_queue).action = "show_mapping_dialog" THEN "queue" ELSE dialog
    /\ UNCHANGED <<runs, windowRest>>

\* lines 1000-1063: the Preview Mapping button
preview_mapping ==
    /\ phase = "window"
    /\ Clickable("preview_btn")
    /\ dialog' = "preview"
    /\ UNCHANGED <<msg_queue, runs, widgets, status_var, windowRest>>

\* lines 1170-1202: the dialog returns; a result with the status of line 810
\* starts continue_processing on a thread of its own
show_mapping_dialog ==
    /\ phase = "window"
    /\ dialog # "none"
    /\ \E result_mapping \in BOOLEAN :
         IF result_mapping /\ status_var = LowConfidenceStatus
         THEN IF \E i \in DOMAIN runs : runs[i].pc = "waiting"
              THEN runs' = [runs EXCEPT ![CHOOSE i \in DOMAIN runs : runs[i].pc = "waiting"] =
                               [pc |-> "continue", inline |-> FALSE, waiting |-> FALSE,
                                outcome |-> "none"]]
              ELSE runs' = Append(runs, [pc |-> "continue", inline |-> FALSE,
                                         waiting |-> FALSE, outcome |-> "none"])
         ELSE runs' = runs
    /\ dialog' = "none"
    /\ UNCHANGED <<msg_queue, widgets, status_var, windowRest>>

InitWindow ==
    /\ source_df = <<>>
    /\ mapping_in = <<>>
    /\ mapping_arg = <<>>
    /\ mapping = <<>>
    /\ grouped_keys = <<>>
    /\ transformed = NoResult
    /\ final_df = NoFrame
    /\ msg_queue = <<>>
    /\ runs = <<>>
    /\ widgets = Buttons
    /\ status_var = "Ready"
    /\ dialog = "none"
    /\ named_columns = <<>>
    /\ column_suggestions = NoPattern
    /\ numeric_columns = <<>>
    /\ deductible_column = NoPattern
    /\ template_df = StandardTemplate
    /\ messages = <<>>
    /\ phase = "window"
    /\ default_deductible = s_100
    /\ plan_df = [columns |-> <<>>, rows |-> <<>>, rules |-> <<>>]
    /\ plan_given = <<>>
    /\ structure = NoStructure
    /\ current_mapping = <<>>
    /\ mapping_confidence = <<>>
    /\ sig_structures = <<>>
    /\ sig_results = <<>>
    /\ NewCache
    /\ sheet_df = <<>>
    /\ sheet_structure = NotAnalyzed

NextWindow ==
    \/ process_files
    \/ \E i \in DOMAIN runs : process_files_worker(i)
    \/ \E i \in DOMAIN runs : run_continue_processing(i)
    \/ \E i \in DOMAIN runs : continue_finally(i)
    \/ \E i \in DOMAIN runs : worker_finally(i)
    \/ process_queue
    \/ preview_mapping
    \/ show_mapping_dialog

SpecWindow == InitWindow /\ [][NextWindow]_vars

-----------------------------------------------------------------------------
(* What the claims speak of, read off the sheet and the run's result *)

Pivoted == phase = "done" /\ transformed.kind = "pivot"

SourceIdx == 1..Len(source_df)

TierOf(i) == source_df[i][Ded]

ValueOf(i) == source_df[i][Amt]

GroupTuple(i) == <<source_df[i][Cov], source_df[i][Cls]>>

\* the composite key of a source row
KeyOf(i) == source_df[i][Cov] \o <<"|","|">> \o source_df[i][Cls]

\* a row the pivot retains carries a tier with at least one digit
Retained(i) == \E n \in 1..Len(TierOf(i)) : isdigit(TierOf(i)[n])

\* the N of the Deduct<N> cell a retained row writes: the tier's digits
TierDigits(i) == SelectSeq(TierOf(i), isdigit)

TierColumn(i) == Deduct \o TierDigits(i)

AggregateIdx(k) == { a \in 1..Len(grouped_keys) : grouped_keys[a] = k }

Aggregate(k) == transformed.df.rows[CHOOSE a \in AggregateIdx(k) : TRUE]

OutRows == transformed.df.rows

Least(S) == CHOOSE n \in S : \A m \in S : n <= m

\* the numeric value of a tier text such as 100 or 100.0
IntegerPart(t) ==
    LET dots == { n \in 1..Len(t) : t[n] = "." }
    IN IF dots = {} THEN t ELSE SubSeq(t, 1, Least(dots) - 1)

IsNumber(t) ==
    /\ IntegerPart(t) # <<>>
    /\ \A n \in 1..Len(t) :
         IF n <= Len(IntegerPart(t)) THEN isdigit(t[n])
         ELSE n = Len(IntegerPart(t)) + 1 \/ t[n] = "0"

TierNumber(i) == int(IntegerPart(TierOf(i)))

NumericColumn(i) == Deduct \o str_int(TierNumber(i))

HasAmount(i) == ValueOf(i) # EMPTY

StandardTierColumns == { Deduct0, Deduct50, Deduct100, Deduct200, Deduct250, Deduct500 }

-----------------------------------------------------------------------------
(* Claims about the pivot *)

\* a row the pivot is to keep: its tier is a number and it carries an amount
Kept(i) == Retained(i) /\ IsNumber(TierOf(i)) /\ HasAmount(i)

\* C1: when two or more retained rows have identical grouping-key values and
\* the same tier N, there is exactly one aggregate row with those values and
\* its Deduct<N> cell holds the value of the one processed last (last write
\* wins, no second row).
C1_LastWriteWins ==
    Pivoted =>
      \A i, j \in SourceIdx :
        ( /\ i < j /\ Kept(i) /\ Kept(j)
          /\ GroupTuple(i) = GroupTuple(j) /\ TierNumber(i) = TierNumber(j)
          /\ \A l \in SourceIdx :
               (l > j /\ Kept(l) /\ GroupTuple(l) = GroupTuple(j))
               => TierNumber(l) # TierNumber(j) )
        => /\ Cardinality({ a \in 1..Len(OutRows) :
                  <<OutRows[a][Coverage], OutRows[a][Class]>> = GroupTuple(j) }) = 1
           /\ NumericColumn(j) \in Range(transformed.df.columns)
           /\ \A a \in 1..Len(OutRows) :
                <<OutRows[a][Coverage], OutRows[a][Class]>> = GroupTuple(j)
                => OutRows[a][NumericColumn(j)] = ValueOf(j)

\* C2: the pivot yields exactly one aggregate row per distinct tuple of
\* grouping-key values of the retained rows, and two retained rows whose
\* tuples differ never share an aggregate row.
C2_OneRowPerTuple ==
    Pivoted =>
      /\ \A i \in SourceIdx :
           Retained(i) =>
             Cardinality({ a \in 1..Len(OutRows) :
                             <<OutRows[a][Coverage], OutRows[a][Class]>> = GroupTuple(i) }) = 1
      /\ \A i, j \in SourceIdx :
           (Retained(i) /\ Retained(j) /\ GroupTuple(i) # GroupTuple(j))
           => AggregateIdx(KeyOf(i)) # AggregateIdx(KeyOf(j))

\* C3: the cell a retained row writes is Deduct<N> with N the numeric value of
\* its tier, so the last retained row of a key and a numeric tier leaves its
\* value in that column (100, "100" and 100.0 all write Deduct100).
C3_NumericTierColumn ==
    Pivoted =>
      \A i \in SourceIdx :
        ( /\ Retained(i) /\ IsNumber(TierOf(i))
          /\ \A l \in SourceIdx :
               (l > i /\ Retained(l) /\ KeyOf(l) = KeyOf(i) /\ IsNumber(TierOf(l)))
               => TierNumber(l) # TierNumber(i) )
        => /\ NumericColumn(i) \in Range(transformed.df.columns)
           /\ Aggregate(KeyOf(i))[NumericColumn(i)] = ValueOf(i)

\* C4: after a pivot with at least one aggregate row, every output row has a
\* column for each standard tier, and a standard tier cell no retained row of
\* that key supplied holds the empty string (not zero, not NaN, not None).
C4_StandardTiersBlank ==
    Pivoted =>
      \A a \in 1..Len(OutRows) : \A c \in StandardTierColumns :
        /\ c \in Range(transformed.df.columns)
        /\ ( ~ \E i \in SourceIdx :
                 Retained(i) /\ KeyOf(i) = grouped_keys[a] /\ TierColumn(i) = c )
           => OutRows[a][c] = EMPTY

\* an aggregate row with an amount under Deduct100 and nothing under Deduct50
C4_Witness ==
    /\ Pivoted
    /\ \E a \in 1..Len(OutRows) :
         /\ OutRows[a][Deduct100] \notin {EMPTY, NaN, None}
         /\ OutRows[a][Deduct50] = EMPTY
         /\ ~ \E i \in SourceIdx :
                Retained(i) /\ KeyOf(i) = grouped_keys[a] /\ TierColumn(i) = Deduct50

PivotFieldsResolved ==
    /\ has(mapping, Deductible) /\ get(mapping, Deductible) \in Range(source_columns)
    /\ has(mapping, RateCost) /\ get(mapping, RateCost) \in Range(source_columns)

\* C5: when neither the mapping nor the detection resolves a tier field and a
\* value field of the dataset, the run reports an error and does not complete,
\* and transform_data does not hand back the source rows.
C5_SchemaError ==
    (phase = "done" /\ source_df # <<>> /\ ~PivotFieldsResolved)
    => /\ "show_info: Processing Complete" \notin Range(messages)
       /\ \E n \in 1..Len(messages) :
            messages[n] \notin {"show_info: Processing Complete", "enable_controls"}
       /\ OutRows # source_df

\* C6: when every source row is dropped, transform_data returns the renamed
\* rows unchanged: the same rows, in the same order, with the mapped fields.
C6_FallbackToRenamed ==
    ( /\ phase = "done" /\ source_df # <<>> /\ PivotFieldsResolved
      /\ \A i \in SourceIdx : ~Retained(i) )
    => /\ Range(transformed.df.columns) = {Coverage, Class, Deductible, RateCost}
       /\ Len(OutRows) = Len(source_df)
       /\ \A i \in SourceIdx :
            /\ OutRows[i][Coverage] = source_df[i][Cov]
            /\ OutRows[i][Class] = source_df[i][Cls]
            /\ OutRows[i][Deductible] = source_df[i][Ded]
            /\ OutRows[i][RateCost] = source_df[i][Amt]

\* C7: a row whose tier holds no digit creates no aggregate row: every
\* aggregate row of the output is the row of some retained source row.
C7_NoDigitRowDropped ==
    Pivoted =>
      \A a \in 1..Len(grouped_keys) :
        \E i \in SourceIdx : Retained(i) /\ KeyOf(i) = grouped_keys[a]

\* C8: a row whose value is absent or empty is dropped: the cell of a key and
\* a tier holds the value of the last retained row of that key and tier that
\* carries a value, whatever value-less rows come after it.
C8_ValuelessRowDropped ==
    Pivoted =>
      \A i \in SourceIdx :
        ( /\ Retained(i) /\ HasAmount(i)
          /\ \A l \in SourceIdx :
               (l > i /\ Retained(l) /\ HasAmount(l) /\ KeyOf(l) = KeyOf(i))
               => TierColumn(l) # TierColumn(i) )
        => Aggregate(KeyOf(i))[TierColumn(i)] = ValueOf(i)

-----------------------------------------------------------------------------
(* Claims about the PlanDeduct derivation *)

PlanDone == phase = "plan_out"

PlanIdx == 1..Len(plan_df.rules)

Filled(cell) == cell \notin {EMPTY, NaN, None}

DefaultColumn == Deduct \o default_deductible

DefaultCellFilled(i) ==
    /\ default_deductible # EMPTY
    /\ DefaultColumn \in Range(plan_df.columns)
    /\ Filled(plan_df.rows[i][DefaultColumn])

LowTierClass(i) == upper(strip(plan_df.rows[i][Class])) \in { <<"C">>, <<"D">> }

FilledTiers(i) ==
    { int(DigitsOf(c)) :
        c \in { d \in Range(plan_df.columns) :
                  /\ startswith(d, Deduct) /\ d # PlanDeduct /\ DigitsOf(d) # EMPTY
                  /\ Filled(plan_df.rows[i][d]) } }

\* C9: rule a selects the default tier exactly when the default tier's cell on
\* the row is non-empty; with the cell empty the later rules decide.
C9_DefaultTierRule ==
    PlanDone => \A i \in PlanIdx : (plan_df.rules[i] = "a") <=> DefaultCellFilled(i)

\* C10: for a row whose default-tier cell is empty and whose Class is C or D,
\* PlanDeduct is the numerically lowest tier with a non-empty cell.
C10_LowClassLowestTier ==
    PlanDone =>
      \A i \in PlanIdx :
        (~DefaultCellFilled(i) /\ LowTierClass(i) /\ FilledTiers(i) # {})
        => plan_df.rows[i][PlanDeduct] = str_int(Least(FilledTiers(i)))

\* the cell test of the rules c and d as the claim states it
Tier100Filled(i) ==
    Deduct100 \in Range(plan_df.columns) /\ Filled(plan_df.rows[i][Deduct100])

\* C11: a row matched by neither rule a nor rule b gets 100 when tier 100's
\* cell is non-empty, otherwise the lowest tier with a non-empty cell, and the
\* sentinel (no value) when no tier cell is non-empty; and a PlanDeduct that
\* is not the sentinel always names a tier whose cell on the row is non-empty.
C11_FallbackTierRules ==
    PlanDone =>
      \A i \in PlanIdx :
        /\ (~DefaultCellFilled(i) /\ ~LowTierClass(i) /\ FilledTiers(i) # {})
           => plan_df.rows[i][PlanDeduct] =
                IF Tier100Filled(i) THEN s_100 ELSE str_int(Least(FilledTiers(i)))
        /\ (~DefaultCellFilled(i) /\ ~LowTierClass(i) /\ FilledTiers(i) = {})
           => ~Filled(plan_df.rows[i][PlanDeduct])
        /\ Filled(plan_df.rows[i][PlanDeduct])
           => /\ Deduct \o plan_df.rows[i][PlanDeduct] \in Range(plan_df.columns)
              /\ Filled(plan_df.rows[i][Deduct \o plan_df.rows[i][PlanDeduct]])

TierColumnsOf(columns) ==
    { c \in Range(columns) : startswith(c, Deduct) /\ c # PlanDeduct /\ DigitsOf(c) # EMPTY }

\* C12: every aggregate row the pipeline emits after a pivot carries a
\* PlanDeduct derived from its tier cells: no emitted row has an empty
\* PlanDeduct while one of its tier cells is non-empty.
C12_PipelineDerivesPlanDeduct ==
    Pivoted =>
      /\ \A a \in 1..Len(OutRows) :
           (\E c \in TierColumnsOf(transformed.df.columns) : Filled(OutRows[a][c]))
           => /\ PlanDeduct \in Range(transformed.df.columns)
              /\ Filled(OutRows[a][PlanDeduct])
      /\ \A a \in 1..Len(final_df.rows) :
           (\E c \in TierColumnsOf(final_df.columns) : Filled(final_df.rows[a][c]))
           => /\ PlanDeduct \in Range(final_df.columns)
              /\ Filled(final_df.rows[a][PlanDeduct])

IdentityFields == <<CompanyCode, Term, Miles, FromMiles, ToMiles, Coverage, State, Class>>

Position(columns, c) == CHOOSE n \in DOMAIN columns : columns[n] = c

\* 1 identity field, 2 PlanDeduct, 3 a Deduct<N> column, 4 any other column
ColumnGroup(c) ==
    IF c \in Range(IdentityFields) THEN 1
    ELSE IF c = PlanDeduct THEN 2
    ELSE IF startswith(c, Deduct) /\ DigitsOf(c) # EMPTY THEN 3
    ELSE 4

-----------------------------------------------------------------------------
(* Claims about the mapping a run uses *)

SourceFields(m) == { m[n][2] : n \in DOMAIN m }

\* transform_data is called only for a sheet that has rows
TransformCalled == phase = "done" /\ source_df # <<>>

\* C16: a mapping produced for a dataset, the Deductible and RateCost entries
\* added by the pivot-column detection and by transform_data's
\* auto-assignment included, names only columns of that dataset.
C16_MappingNamesDatasetColumns ==
    (phase = "done" /\ SourceFields(mapping_in) \subseteq Range(source_columns))
    => SourceFields(mapping) \subseteq Range(source_columns)

\* C17: transform_data leaves the mapping it was passed as it was, on every
\* path, and the tier and value fields of a pivot are the ones it named.
C17_MappingUnmodified ==
    TransformCalled =>
      /\ mapping = mapping_arg
      /\ Pivoted => /\ has(mapping_arg, Deductible) /\ has(mapping_arg, RateCost)
                    /\ \A i \in SourceIdx :
                         /\ TierOf(i) = source_df[i][get(mapping_arg, Deductible)]
                         /\ ValueOf(i) = source_df[i][get(mapping_arg, RateCost)]

-----------------------------------------------------------------------------
(* Claims about the analyzer's suggestions and generate_mapping *)

Analyzed == structure # NoStructure

MapDone == phase = "map_out"

Suggestions == structure.column_mapping_suggestions

\* the columns of the sheet whose name is the field's, case-insensitively
NamedAs(field) ==
    { structure.columns[n].name : n \in { m \in DOMAIN structure.columns :
                                             lower(structure.columns[m].name) = lower(field) } }

\* C14: a source field whose name equals a canonical target field name,
\* case-insensitively, is mapped to that target with confidence exactly 100,
\* in generate_mapping's mapping and in the analyzer's suggestions, whatever
\* other fields and suggestions there are.
C14_ExactNameConfidence ==
    /\ MapDone =>
         \A k \in DOMAIN required_fields :
           NamedAs(required_fields[k]) # {}
           => /\ has(current_mapping, required_fields[k])
              /\ get(current_mapping, required_fields[k]) \in NamedAs(required_fields[k])
              /\ get(mapping_confidence, required_fields[k]) = 100
    /\ Analyzed =>
         \A k \in DOMAIN standard_fields :
           NamedAs(standard_fields[k][1]) # {}
           => /\ has(Suggestions, standard_fields[k][1])
              /\ get(Suggestions, standard_fields[k][1]).suggested_column
                    \in NamedAs(standard_fields[k][1])
              /\ get(Suggestions, standard_fields[k][1]).confidence = 100

\* C15: every confidence recorded for a mapped target, in the analyzer's
\* suggestions and in generate_mapping's confidence map, is within 0..100.
C15_ConfidenceRange ==
    /\ \A n \in DOMAIN Suggestions : Suggestions[n][2].confidence \in 0..100
    /\ \A n \in DOMAIN mapping_confidence : mapping_confidence[n][2] \in 0..100

-----------------------------------------------------------------------------
(* Claims about the file signature *)

\* the set of (field name, data type) pairs of a structure
TypedFields(struct) ==
    { <<struct.columns[n][1], struct.columns[n][2].data_type>> : n \in DOMAIN struct.columns }

-----------------------------------------------------------------------------
(* Claims about the saved mappings *)

LastCall == calls[Len(calls)]

\* the earlier save_mapping calls given this signature
SavesUnder(sig) ==
    { i \in 1..(Len(calls) - 1) : calls[i].op = "save" /\ calls[i].signature = sig }

Latest(S) == CHOOSE i \in S : \A j \in S : j <= i

\* a stored record without its metadata, and its metadata
FieldsOf(rec) == remove(rec, s_metadata)

MetaOf(rec) == get(rec, s_metadata)

\* the indexes by value, in memory and in the file, now and before the last call
ByValue == json_document(mappings, heap)

ByValueBefore == json_document(prior.mappings, prior.heap)

\* C19: get_saved_mapping returns the record of the latest save_mapping under
\* the signature, with last_used set to the time of the call, in memory and in
\* the file; when nothing was saved under the signature it returns None and
\* leaves the mappings and the file as they were.
C19_GetSavedMapping ==
    (calls # <<>> /\ LastCall.op = "get") =>
      IF SavesUnder(LastCall.signature) = {}
      THEN /\ LastCall.result = None
           /\ mappings = prior.mappings
           /\ ByValue = ByValueBefore
           /\ disk = prior.disk
      ELSE LET stored == calls[Latest(SavesUnder(LastCall.signature))] IN
           /\ LastCall.result # None
           /\ FieldsOf(LastCall.result) = stored.mapping
           /\ get(MetaOf(LastCall.result), "saved") = stored.time
           /\ truthy(stored.name) => get(MetaOf(LastCall.result), "name") = stored.name
           /\ get(MetaOf(LastCall.result), "last_used") = LastCall.time
           /\ get(ByValue.file_mappings, LastCall.signature) = LastCall.result
           /\ disk.exists
           /\ get(disk.document.file_mappings, LastCall.signature) = LastCall.result

\* a hit on a signature saved twice with two mappings, later than the save
C19_Witness ==
    /\ calls # <<>> /\ LastCall.op = "get"
    /\ Cardinality(SavesUnder(LastCall.signature)) = 2
    /\ \E i, j \in SavesUnder(LastCall.signature) : calls[i].mapping # calls[j].mapping
    /\ LastCall.result # None
    /\ get(MetaOf(LastCall.result), "last_used") # get(MetaOf(LastCall.result), "saved")

\* C20: after save_mapping the by-signature index holds the mapping under the
\* signature, with saved and last_used set to the time of the call; with a
\* name the by-name index holds the same record under the name and is
\* otherwise as before; without a name the by-name index is as before.
C20_SaveMappingUpserts ==
    (calls # <<>> /\ LastCall.op = "save") =>
      /\ has(mappings.file_mappings, LastCall.signature)
      /\ LET rec == get(ByValue.file_mappings, LastCall.signature) IN
           /\ FieldsOf(rec) = LastCall.mapping
           /\ get(MetaOf(rec), "saved") = LastCall.time
           /\ get(MetaOf(rec), "last_used") = LastCall.time
      /\ remove(ByValue.file_mappings, LastCall.signature)
           = remove(ByValueBefore.file_mappings, LastCall.signature)
      /\ IF truthy(LastCall.name)
         THEN /\ has(mappings.named_templates, LastCall.name)
              /\ get(mappings.named_templates, LastCall.name)
                   = get(mappings.file_mappings, LastCall.signature)
              /\ remove(ByValue.named_templates, LastCall.name)
                   = remove(ByValueBefore.named_templates, LastCall.name)
         ELSE ByValue.named_templates = ByValueBefore.named_templates

\* a save under a signature and a name that both held another mapping before
C20_Witness ==
    /\ calls # <<>> /\ LastCall.op = "save"
    /\ truthy(LastCall.name)
    /\ has(prior.mappings.file_mappings, LastCall.signature)
    /\ FieldsOf(get(ByValueBefore.file_mappings, LastCall.signature)) # LastCall.mapping
    /\ has(prior.mappings.named_templates, LastCall.name)
    /\ FieldsOf(get(ByValueBefore.named_templates, LastCall.name)) # LastCall.mapping
    /\ FieldsOf(get(ByValue.named_templates, LastCall.name)) = LastCall.mapping

\* C21: delete_template of a stored name answers True and get_template_names
\* lists the other names and no longer this one; of a name that is not stored
\* it answers False and leaves both indexes and the file as they were.
C21_DeleteTemplate ==
    (calls # <<>> /\ LastCall.op = "delete") =>
      IF has(prior.mappings.named_templates, LastCall.name)
      THEN /\ LastCall.result = <<"True">>
           /\ LastCall.name \notin Range(get_template_names)
           /\ Range(get_template_names)
                = Range(keys(prior.mappings.named_templates)) \ {LastCall.name}
      ELSE /\ LastCall.result = <<"False">>
           /\ ByValue.named_templates = ByValueBefore.named_templates
           /\ ByValue.file_mappings = ByValueBefore.file_mappings
           /\ disk = prior.disk

\* a stored template deleted while another one stays
C21_Witness ==
    /\ calls # <<>> /\ LastCall.op = "delete"
    /\ has(prior.mappings.named_templates, LastCall.name)
    /\ Len(prior.mappings.named_templates) = 2
    /\ Len(get_template_names) = 1
    /\ LastCall.result = <<"True">>

\* the records an index holds
RecordsOf(index) == { index[n][2] : n \in DOMAIN index }

\* C22: get_recent_mappings(limit) returns at most limit entries, each of a
\* record of the by-signature or the by-name index, in descending order of
\* last_used; while there is room left under the limit no record of either
\* index is missing, a record stored under a name only included.
C22_RecentMappings ==
    (calls # <<>> /\ LastCall.op = "recent") =>
      /\ Len(LastCall.result) <= LastCall.limit
      /\ \A i, j \in DOMAIN LastCall.result :
           i < j => LastCall.result[i].last_used >= LastCall.result[j].last_used
      /\ \A i \in DOMAIN LastCall.result :
           LastCall.result[i].mapping
             \in RecordsOf(ByValue.file_mappings) \cup RecordsOf(ByValue.named_templates)
      /\ Len(LastCall.result) < LastCall.limit =>
           \A rec \in RecordsOf(ByValue.file_mappings) \cup RecordsOf(ByValue.named_templates) :
             \E i \in DOMAIN LastCall.result : LastCall.result[i].mapping = rec

-----------------------------------------------------------------------------
(* Claims about a manager created over the file it finds *)

\* C23: a manager created over a missing, unreadable or corrupt file holds no
\* record under a signature or a name, and no later call of it raises,
\* whether or not the file can be written.
C23_NeverFails ==
    /\ calls = <<>> => /\ mappings.file_mappings \in {<<>>, json_list}
                       /\ mappings.named_templates = <<>>
    /\ \A i \in DOMAIN calls : ~calls[i].raised

\* C30: with a file that can be written, every call returns what it returns
\* to the twin that was given the same calls and never created anew.
C30_RestartInvisible ==
    writable =>
      \A i \in DOMAIN calls :
        /\ calls[i].raised = calls[i].twin_raised
        /\ calls[i].result = calls[i].twin_result

-----------------------------------------------------------------------------
(* Claims about the integration with the template *)

Integrated == phase = "integrate_out"

\* the values a row has in the identity fields a frame has
KeyIn(df, row) ==
    [c \in Range(IdentityFields) \cap Range(df.columns) |-> row[c]]

\* C24: the result has every column of the template sheet and every column
\* of the transformed frame, the template's columns first.
C24_SchemaGrows ==
    Integrated =>
      /\ Range(template_df.columns) \subseteq Range(final_df.columns)
      /\ Range(transformed.df.columns) \subseteq Range(final_df.columns)
      /\ SubSeq(final_df.columns, 1, Len(template_df.columns)) = template_df.columns

\* C25: of a template sheet of five rows or more every row is in the result,
\* itself or as the transformed row of the same key, along with every
\* transformed row; of a shorter one the result has the transformed rows and
\* no other.
C25_RowsMerged ==
    (Integrated /\ transformed.kind = "pivot") =>
      /\ Len(template_df.rows) >= 5 =>
           \A d \in DOMAIN template_df.rows :
             \E r \in DOMAIN final_df.rows :
               KeyIn(template_df, final_df.rows[r]) = KeyIn(template_df, template_df.rows[d])
      /\ \A t \in DOMAIN transformed.df.rows :
           \E r \in DOMAIN final_df.rows :
             KeyIn(transformed.df, final_df.rows[r])
               = KeyIn(transformed.df, transformed.df.rows[t])
      /\ Len(template_df.rows) < 5 => Len(final_df.rows) = Len(transformed.df.rows)

-----------------------------------------------------------------------------
(* Claims about the analysis of a sheet *)

SheetAnalyzed == phase = "sheet_out"

\* the fields whose analysis raises in the analysis that was made
Failing(n) ==
    IF sheet_structure.by = "sheet" THEN sheet_column(sheet_df, n) # "profile"
    ELSE file_column(sheet_df[n]) = "raise"

\* C26: when the analysis of a field raises, the analysis of the sheet does
\* not: every field has a profile, with an error mark and a data type for a
\* field that failed and without the mark for the others.
C26_FieldFailureIsolated ==
    (SheetAnalyzed /\ \E n \in DOMAIN sheet_df : Failing(n)) =>
      /\ ~sheet_structure.raised
      /\ \A n \in DOMAIN sheet_df :
           /\ has(sheet_structure.columns, sheet_df[n].name)
           /\ get(sheet_structure.columns, sheet_df[n].name).error = Failing(n)
           /\ get(sheet_structure.columns, sheet_df[n].name).data_type # <<>>

-----------------------------------------------------------------------------
(* Claims about the choice of the deductible column *)

\* whether a column is a candidate: lines 271-281
Candidate(col) ==
    LET common_count == Cardinality({ n \in DOMAIN col.values :
                            /\ is_integral(col.values[n])
                            /\ int(integer_part(col.values[n])) \in common_deductibles })
    IN /\ data_type(col) \in {"integer", "float"}
       /\ Len(col.values) > 0
       /\ 2 * common_count >= Len(col.values) /\ common_count >= 2

\* the score of a candidate: the match percentage, plus 20 when the name
\* contains "deduct"
Score(col) ==
    LET common_count == Cardinality({ n \in DOMAIN col.values :
                            /\ is_integral(col.values[n])
                            /\ int(integer_part(col.values[n])) \in common_deductibles })
    IN (common_count * 100) \div Len(col.values)
       + (IF Contains(s_deduct, lower(col.name)) THEN 20 ELSE 0)

Identified == phase = "deduct_out"

\* C28: the column selected is a candidate of the highest score (match
\* percentage plus 20 for a name containing "deduct"): no candidate of the
\* sheet has a higher score than the selected one, in whatever order the
\* columns come.
C28_HighestScoreSelected ==
    (Identified /\ \E n \in DOMAIN numeric_columns : Candidate(numeric_columns[n])) =>
      /\ deductible_column.found
      /\ \E k \in DOMAIN numeric_columns :
           /\ numeric_columns[k].name = deductible_column.column
           /\ Candidate(numeric_columns[k])
           /\ \A n \in DOMAIN numeric_columns :
                Candidate(numeric_columns[n]) =>
                  Score(numeric_columns[n]) <= Score(numeric_columns[k])

-----------------------------------------------------------------------------
(* Claims about suggest_column_mappings *)

Suggested == phase = "suggest_out"

ExactFor(f) ==
    { n \in DOMAIN named_columns : lower(named_columns[n].name) = suggest_fields[f][1] }

\* the columns whose name contains a synonym of the target
SynonymFor(f) ==
    { n \in DOMAIN named_columns :
        \E k \in DOMAIN suggest_fields[f][2] :
          Contains(suggest_fields[f][2][k], lower(named_columns[n].name)) }

\* C27: for a target that no column matches exactly and of which some column
\* contains a synonym, the suggestion is the first such column in column
\* order, by the synonym tier with confidence 80, and no other column with a
\* fuzzy score.
C27_SynonymBeforeFuzzy ==
    Suggested =>
      \A f \in DOMAIN suggest_fields :
        (ExactFor(f) = {} /\ SynonymFor(f) # {}) =>
          /\ has(column_suggestions, suggest_fields[f][1])
          /\ LET first == CHOOSE n \in SynonymFor(f) : \A m \in SynonymFor(f) : n <= m
                 got == get(column_suggestions, suggest_fields[f][1])
             IN /\ got.suggested_column = named_columns[first].name
                /\ got.confidence = 80
                /\ got.reason[1] = "synonym"

-----------------------------------------------------------------------------
(* Claims about the runs of the window *)

\* a run that has neither saved its output nor reported its error
InProgress(run) == run.outcome = "none"

PostsEnableControls ==
    \E k \in DOMAIN msg_queue' :
      k > Len(msg_queue) /\ msg_queue'[k].action = "enable_controls"

StartsRun == Len(runs') > Len(runs)

\* C29: while a run that process_files started has neither saved its output
\* nor reported its error, no step posts an enable_controls message and no
\* step starts a second run.
C29_ControlsStayDisabled ==
    [][ (\E i \in DOMAIN runs : InProgress(runs[i])) =>
          ~PostsEnableControls /\ ~StartsRun ]_vars

====
